---- MODULE Spec2Model ----
(***************************************************************************)
(* Verification model of the multi-agent runtime: the message bus          *)
(* (Environment), and the workflow manager with its tasks.                 *)
(*                                                                         *)
(* Coroutines are modelled as interleaved atomic steps, one step being the *)
(* code between two suspension points (await) of the asyncio event loop.   *)
(***************************************************************************)
EXTENDS Integers, Sequences, FiniteSets, TLC

\* ---------------------------------------------------------------- bounds
\* asyncio.Queue(maxsize=1000) of the source, scaled down so that a full
\* queue is reached.
QueueMaxSize == 1
\* the history cap (100 in the source), scaled down so that eviction happens.
HistoryMax == 2
\* number of publish calls made to the bus from outside and by callbacks.
MaxMsgs == 3
\* number of execute_workflow calls made in one behaviour.
MaxRuns == 1
\* number of direct Task.execute calls made in one behaviour.
MaxCalls == 2
\* number of reactor cycles (Role.run or Role.handle_message calls) of the agent.
MaxCycles == 3
\* number of Role.set_actions calls made in one behaviour.
MaxSets == 2
\* the largest Action.max_retries of the checked calls
MaxActionRetries == 3

Callbacks == {"a", "b"}
Causes == {"t1", "t2"}
Topics == Causes \cup {"*"}
None == "None"
\* the (topic, callback) pairs subscribe and unsubscribe are called with
SubscribeInputs == {<<"t1", "a">>, <<"*", "b">>}
\* the cause tag of the messages a callback publishes
CallbackCause == "t1"

VARIABLES
    subscriptions,     \* Environment._subscriptions: topic -> set of callbacks
    message_queue,     \* Environment._message_queue: the items of the asyncio.Queue
    putters,           \* publish calls suspended in Queue.put, in arrival order
    woken,             \* suspended publish calls whose wake-up is scheduled
    unfinished_tasks,  \* the Queue's count of put items not yet task_done
    message_history,   \* Environment._message_history
    loop_pc,           \* position of Environment.run
    round,             \* number of messages Environment.run has dequeued
    gather_exc,        \* the gather of the current round has an exception set
    calls,             \* live callback invocations: <<round, callback>> -> state
    published,         \* history variable: every message, in publish-call order
    dequeued,          \* history variable: every message, in dequeue order
    wf_tasks,          \* Workflow.tasks: the tasks in the order they were added
    description,       \* Task.description of every task
    dependencies,      \* Task.dependencies of every task (a list of tasks)
    max_retries,       \* Task.max_retries of every task
    timeout,           \* whether Task.timeout is set, for every task
    status,            \* Task.status of every task
    result,            \* Task.result of every task
    wf_status,         \* Workflow.status
    wf_result,         \* Workflow.result
    active_workflow,   \* WorkflowManager.active_workflow
    runs,              \* the calls of execute_workflow or of Task.execute
    agent_calls,       \* history variable: every invocation of an agent by a task
    callbacks,         \* Task.on_success and Task.on_failure of every task
    events,            \* history variable: what the Task.execute calls did
    rc,                \* Role.rc: the RoleContext (msg_buffer, state, todo, actions)
    react_mode,        \* Role.react_mode
    environment,       \* whether Role.environment is set (add_role was called)
    plan,              \* Role._plan, once _think has stored it
    cycles,            \* the calls of Role.run and Role.handle_message
    set_actions_calls, \* history variable: number of set_actions calls so far
    workflows,         \* WorkflowManager.workflows: the names in the registry
    reply,             \* history variable: the last call made and what it returned
    initialized,       \* Environment._initialized of the one instance
    retry_call         \* a call of Action.run_with_retry

busVars == <<subscriptions, message_queue, putters, woken, unfinished_tasks,
             message_history, loop_pc, round, gather_exc, calls,
             published, dequeued>>

wfVars == <<wf_tasks, description, dependencies, max_retries, timeout, status,
            result, wf_status, wf_result, active_workflow, runs, agent_calls,
            callbacks, events>>

roleVars == <<rc, react_mode, environment, plan, cycles, set_actions_calls>>

mgrVars == <<workflows, reply, initialized>>

actVars == <<retry_call>>

\* everything but the bus
restVars == <<wfVars, roleVars, mgrVars, actVars>>

vars == <<busVars, wfVars, roleVars, mgrVars, actVars>>

\* ------------------------------------------------------------- helpers
Last(n, s) == IF Len(s) <= n THEN s ELSE SubSeq(s, Len(s) - n + 1, Len(s))

RECURSIVE SelectNot(_, _)
\* the sequence s without the elements whose caller is in the set gone
SelectNot(s, gone) ==
    IF s = <<>> THEN <<>>
    ELSE IF Head(s).who \in gone THEN SelectNot(Tail(s), gone)
         ELSE <<Head(s)>> \o SelectNot(Tail(s), gone)

Range(s) == {s[i] : i \in 1..Len(s)}

Drop(f, gone) == [i \in DOMAIN f \ gone |-> f[i]]

\* a text produced by an agent or an action (or no text); n tells the texts
\* of different agent invocations apart
Output(kind, n) == [kind |-> kind, n |-> n]
NoOutput == Output("none", 0)

\* Message(context=..., type=..., sent_from=..., cause_by=...); id stands for
\* the uuid given at construction
Message(id, context, type, sender, cause) ==
    [id |-> id, context |-> context, type |-> type, sent_from |-> sender,
     cause_by |-> cause]

External == <<0, "ext">>

\* ------------------------------------------------------------ the bus
\* Queue.full()
Full(q) == Len(q) >= QueueMaxSize

\* Environment.get_history(limit, filter_by); a limit of None is passed as 0,
\* which the test "limit and limit > 0" treats alike
GetHistory(limit, filter_by) ==
    LET filtered == IF filter_by # None
                    THEN SelectSeq(message_history,
                            LAMBDA msg : msg.sent_from = filter_by \/ msg.cause_by = filter_by)
                    ELSE message_history
    IN IF limit # 0 /\ limit > 0 THEN Last(limit, filtered) ELSE filtered

\* mutant: the cap keeps the oldest messages instead of the newest
HistoryAppendKeepOldest(h, message) ==
    LET h1 == Append(h, message)
    IN IF Len(h1) > HistoryMax THEN SubSeq(h1, 1, HistoryMax) ELSE h1

\* the history after publish appended message
HistoryAppend(h, message) ==
    LET h1 == Append(h, message)
    IN IF Len(h1) > HistoryMax THEN Last(HistoryMax, h1) ELSE h1

\* Environment.publish(message) called by who (a callback invocation or an
\* outside coroutine): history first, then Queue.put, which suspends the
\* caller when the queue is full.
Publish(who, message) ==
    /\ message_history' = HistoryAppend(message_history, message)
    /\ published' = Append(published, message)
    /\ IF Full(message_queue)
       THEN /\ putters' = Append(putters, [who |-> who, msg |-> message])
            /\ UNCHANGED <<message_queue, unfinished_tasks>>
       ELSE /\ message_queue' = Append(message_queue, message)
            /\ unfinished_tasks' = unfinished_tasks + 1
            /\ UNCHANGED putters

\* a publish call made from outside the bus (workflow manager, agent run, test)
PublishCall(cause) ==
    /\ Len(published) < MaxMsgs
    /\ Publish(External, Message(Len(published) + 1, NoOutput, "text", None, cause))
    /\ UNCHANGED <<subscriptions, woken, loop_pc, round, gather_exc, calls, dequeued>>

\* a suspended Queue.put resumes after its wake-up: it re-checks full() and
\* either enqueues or waits again, at the back of the putters.
PutResume ==
    /\ woken # <<>>
    /\ LET w == Head(woken) IN
       /\ woken' = Tail(woken)
       /\ IF Full(message_queue)
          THEN /\ putters' = Append(putters, w)
               /\ UNCHANGED <<message_queue, unfinished_tasks, calls>>
          ELSE /\ message_queue' = Append(message_queue, w.msg)
               /\ unfinished_tasks' = unfinished_tasks + 1
               /\ calls' = Drop(calls, {w.who})
               /\ UNCHANGED putters
    /\ UNCHANGED <<subscriptions, message_history, loop_pc, round, gather_exc, published, dequeued>>

\* Environment.subscribe(topic, callback)
Subscribe(topic, callback) ==
    /\ subscriptions' =
          IF topic \in DOMAIN subscriptions
          THEN [subscriptions EXCEPT ![topic] = @ \cup {callback}]
          ELSE [t \in DOMAIN subscriptions \cup {topic} |->
                   IF t = topic THEN {callback} ELSE subscriptions[t]]
    /\ UNCHANGED <<message_queue, putters, woken, unfinished_tasks,
                   message_history, loop_pc, round, gather_exc, calls,
                   published, dequeued>>

\* Environment.unsubscribe(topic, callback)
Unsubscribe(topic, callback) ==
    /\ subscriptions' =
          IF topic \in DOMAIN subscriptions /\ callback \in subscriptions[topic]
          THEN [subscriptions EXCEPT ![topic] = @ \ {callback}]
          ELSE subscriptions
    /\ UNCHANGED <<message_queue, putters, woken, unfinished_tasks,
                   message_history, loop_pc, round, gather_exc, calls,
                   published, dequeued>>

\* mutant: the wildcard subscribers are left out
MatchedSubscribersExactOnly(message) ==
    IF message.cause_by \in DOMAIN subscriptions
    THEN subscriptions[message.cause_by] ELSE {}

\* the matched subscribers of Environment.run: exact match, then wildcard
MatchedSubscribers(message) ==
    LET exact == IF message.cause_by \in DOMAIN subscriptions
                 THEN subscriptions[message.cause_by] ELSE {}
        wild  == IF "*" \in DOMAIN subscriptions THEN subscriptions["*"] ELSE {}
    IN exact \cup wild

RECURSIVE SetToSeq(_)
\* the elements of a set in the order an iteration over it gives them
SetToSeq(S) ==
    IF S = {} THEN <<>>
    ELSE LET x == CHOOSE x \in S : TRUE IN <<x>> \o SetToSeq(S \ {x})

\* mutant: the callbacks are listed topic by topic, the exact matches and
\* then the wildcard ones
GatherArgsPerTopic(message) ==
    SetToSeq(MatchedSubscribersExactOnly(message))
        \o SetToSeq(IF "*" \in DOMAIN subscriptions THEN subscriptions["*"] ELSE {})

\* the callbacks whose coroutines Environment.run passes to gather for a
\* message: one for each element of the set of matched subscribers
GatherArgs(message) ==
    SetToSeq(MatchedSubscribers(message))

\* Queue.task_done() as Environment.run calls it: with no unfinished item it
\* raises ValueError, which the handler of run answers with a second
\* task_done that raises again and ends the loop.
LoopTaskDone ==
    IF unfinished_tasks > 0
    THEN unfinished_tasks' = unfinished_tasks - 1 /\ loop_pc' = "get"
    ELSE unfinished_tasks' = unfinished_tasks /\ loop_pc' = "crashed"

\* asyncio.create_task(env.run()): the loop reaches its first Queue.get
RunStart ==
    /\ loop_pc = "init"
    /\ loop_pc' = "get"
    /\ UNCHANGED <<subscriptions, message_queue, putters, woken, unfinished_tasks,
                   message_history, round, gather_exc, calls,
                   published, dequeued>>

\* Queue.get_nowait(): pop the oldest item and wake the first suspended putter
WakeNext ==
    IF putters # <<>>
    THEN woken' = Append(woken, Head(putters)) /\ putters' = Tail(putters)
    ELSE UNCHANGED <<woken, putters>>

\* one pass of Environment.run from Queue.get to the gather of the matched
\* callbacks (or to task_done when nothing matched)
RunGet ==
    /\ loop_pc = "get"
    /\ message_queue # <<>>
    /\ LET message == Head(message_queue)
           matched_subscribers == MatchedSubscribers(message)
       IN /\ message_queue' = Tail(message_queue)
          /\ WakeNext
          /\ round' = round + 1
          /\ dequeued' = Append(dequeued, message)
          /\ gather_exc' = FALSE
          /\ IF matched_subscribers # {}
             THEN /\ calls' = [i \in DOMAIN calls \cup
                                     {<<round + 1, c>> : c \in Range(GatherArgs(message))} |->
                                  IF i \in DOMAIN calls THEN calls[i] ELSE "ready"]
                  /\ loop_pc' = "gather"
                  /\ UNCHANGED unfinished_tasks
             ELSE /\ LoopTaskDone
                  /\ UNCHANGED calls
    /\ UNCHANGED <<subscriptions, message_history, published>>

\* the invocations of the round Environment.run is gathering
CurrentCalls == {i \in DOMAIN calls : i[1] = round}

\* mutant: a gather that cancels the callbacks still running when one raises
GatherReturnCancelling ==
    /\ loop_pc = "gather"
    /\ gather_exc \/ CurrentCalls = {}
    /\ LoopTaskDone
    /\ gather_exc' = FALSE
    /\ calls' = Drop(calls, CurrentCalls)
    /\ UNCHANGED <<subscriptions, message_queue, putters, woken, message_history,
                   round, published, dequeued>>

\* asyncio.gather returns to Environment.run: when every callback of the
\* round has returned, or as soon as one of them has raised (the handler of
\* run then logs and calls task_done); the other callbacks are left running.
GatherReturn ==
    /\ loop_pc = "gather"
    /\ gather_exc \/ CurrentCalls = {}
    /\ LoopTaskDone
    /\ gather_exc' = FALSE
    /\ UNCHANGED <<subscriptions, message_queue, putters, woken, message_history,
                   round, calls, published, dequeued>>

\* the callback tasks created by gather run their first steps, one after the
\* other with nothing in between: the event loop runs ready tasks in FIFO
\* order, so a putter woken by the Queue.get of this round resumes before.
CallbacksStart ==
    /\ \E i \in DOMAIN calls : calls[i] = "ready"
    /\ woken = <<>>
    /\ calls' = [i \in DOMAIN calls |-> IF calls[i] = "ready" THEN "running" ELSE calls[i]]
    /\ UNCHANGED <<subscriptions, message_queue, putters, woken, unfinished_tasks,
                   message_history, loop_pc, round, gather_exc,
                   published, dequeued>>

\* a running callback returns
CallbackReturn(i) ==
    /\ i \in DOMAIN calls /\ calls[i] = "running"
    /\ calls' = Drop(calls, {i})
    /\ UNCHANGED <<subscriptions, message_queue, putters, woken, unfinished_tasks,
                   message_history, loop_pc, round, gather_exc,
                   published, dequeued>>

\* a running callback raises an Exception: the gather that still waits for
\* it gets the exception set
CallbackRaise(i) ==
    /\ i \in DOMAIN calls /\ calls[i] = "running"
    /\ calls' = Drop(calls, {i})
    /\ gather_exc' = (gather_exc \/ (loop_pc = "gather" /\ i[1] = round))
    /\ UNCHANGED <<subscriptions, message_queue, putters, woken, unfinished_tasks,
                   message_history, loop_pc, round, published, dequeued>>

\* a running callback publishes to the bus and returns once the publish
\* has returned (as Role.handle_message does at the end of its act phase)
CallbackPublish(i) ==
    /\ i \in DOMAIN calls /\ calls[i] = "running"
    /\ Len(published) < MaxMsgs
    /\ calls' = IF Full(message_queue) THEN [calls EXCEPT ![i] = "blocked"]
                ELSE Drop(calls, {i})
    /\ Publish(i, Message(Len(published) + 1, NoOutput, "text", i[2], CallbackCause))
    /\ UNCHANGED <<subscriptions, woken, loop_pc, round, gather_exc,
                   dequeued>>

\* task.cancel() on the task of Environment.run. A gather still in progress
\* cancels the callbacks of its round (a gather that already has its
\* exception does not); a cancelled Queue.put leaves the putters and hands
\* a wake-up it had received to the next putter.
CancelLoop ==
    /\ loop_pc \in {"get", "gather"}
    /\ loop_pc' = "cancelled"
    /\ LET gone == IF loop_pc = "gather" /\ ~gather_exc THEN CurrentCalls ELSE {}
           p1 == SelectNot(putters, gone)
           w1 == SelectNot(woken, gone)
           k0 == Len(woken) - Len(w1)
           k  == IF Full(message_queue) THEN 0
                 ELSE IF k0 < Len(p1) THEN k0 ELSE Len(p1)
       IN /\ calls' = Drop(calls, gone)
          /\ woken' = w1 \o SubSeq(p1, 1, k)
          /\ putters' = SubSeq(p1, k + 1, Len(p1))
    /\ gather_exc' = FALSE
    /\ UNCHANGED <<subscriptions, message_queue, unfinished_tasks, message_history,
                   round, published, dequeued>>

BusInit ==
    /\ subscriptions = <<>>
    /\ message_queue = <<>>
    /\ putters = <<>>
    /\ woken = <<>>
    /\ unfinished_tasks = 0
    /\ message_history = <<>>
    /\ loop_pc = "init"
    /\ round = 0
    /\ gather_exc = FALSE
    /\ calls = <<>>
    /\ published = <<>>
    /\ dequeued = <<>>


BusActions ==
    \/ \E cause \in Causes : PublishCall(cause)
    \/ PutResume
    \/ \E in \in SubscribeInputs : Subscribe(in[1], in[2])
    \/ \E in \in SubscribeInputs : Unsubscribe(in[1], in[2])
    \/ RunStart
    \/ RunGet
    \/ GatherReturn
    \/ CallbacksStart
    \/ \E i \in DOMAIN calls : CallbackReturn(i)
    \/ \E i \in DOMAIN calls : CallbackRaise(i)
    \/ \E i \in DOMAIN calls : CallbackPublish(i)

\* ------------------------------------------------------ Action.run_with_retry
\* the default of Action.max_retries
DefaultMaxRetries == 3

\* what the run of an action returns or raises
RunOutputs == {"out1", "out2"}
RunErrors == {"ValueError", "TimeoutError", "KeyError"}

\* a call of run_with_retry that has not been made: the position, the
\* action's max_retries, the local variables retries and last_error, the
\* value returned or the error raised, and, as history, every outcome of run
\* and every "sleep", in the order they happened
NoRetryCall == [pc |-> "idle", max_retries |-> DefaultMaxRetries, retries |-> 0,
                last_error |-> None, value |-> None, log |-> <<>>]

ActionIdle == retry_call = NoRetryCall

\* run_with_retry is called: the loop is entered and run awaited, or, with
\* nothing to try, the function ends with no error caught
RunWithRetryCall ==
    /\ retry_call.pc = "idle"
    /\ retry_call' = IF 0 < retry_call.max_retries
                     THEN [retry_call EXCEPT !.pc = "run"]
                     ELSE [retry_call EXCEPT !.pc = "raised", !.value = "RuntimeError"]
    /\ UNCHANGED <<busVars, wfVars, roleVars, mgrVars>>

\* run returns: run_with_retry returns its value
RunReturns(out) ==
    /\ retry_call.pc = "run"
    /\ retry_call' = [retry_call EXCEPT !.pc = "returned", !.value = out,
                                        !.log = Append(@, out)]
    /\ UNCHANGED <<busVars, wfVars, roleVars, mgrVars>>

\* run raises: the error is kept and counted; asyncio.sleep is awaited when
\* another attempt is left, and the last error is raised otherwise
RunRaises(e) ==
    /\ retry_call.pc = "run"
    /\ LET retries == retry_call.retries + 1
       IN retry_call' =
             IF retries < retry_call.max_retries
             THEN [retry_call EXCEPT !.pc = "sleep", !.retries = retries,
                                     !.last_error = e,
                                     !.log = @ \o <<e, "sleep">>]
             ELSE [retry_call EXCEPT !.pc = "raised", !.retries = retries,
                                     !.last_error = e, !.value = e,
                                     !.log = Append(@, e)]
    /\ UNCHANGED <<busVars, wfVars, roleVars, mgrVars>>

\* asyncio.sleep(retry_delay) returns and run is awaited again
SleepReturns ==
    /\ retry_call.pc = "sleep"
    /\ retry_call' = [retry_call EXCEPT !.pc = "run"]
    /\ UNCHANGED <<busVars, wfVars, roleVars, mgrVars>>

\* ------------------------------------------- tasks and the workflow manager
Tasks == {"T1", "T2", "T3"}
RunIds == 1..MaxRuns
\* Task.agent: the name of the Role that owns the task
AgentOf(task) == IF task = "T2" THEN "A2" ELSE "A1"
\* the class name of the action an agent runs, the cause tag of its messages
ActionName == "Action"

Put(f, key, value) ==
    [x \in DOMAIN f \cup {key} |-> IF x = key THEN value ELSE f[x]]

NoDeps == [t \in Tasks |-> <<>>]
\* the dependency lists given to the Task constructor or to
\* set_task_dependencies: a chain, a shared dependency listed twice, cycles
DependencyChoices ==
    { NoDeps,
      [NoDeps EXCEPT !["T2"] = <<"T1">>, !["T3"] = <<"T2">>],
      [NoDeps EXCEPT !["T2"] = <<"T1">>, !["T3"] = <<"T1", "T2", "T1">>],
      [NoDeps EXCEPT !["T1"] = <<"T2">>, !["T2"] = <<"T1">>],
      [NoDeps EXCEPT !["T2"] = <<"T3">>, !["T3"] = <<"T2">>],
      [NoDeps EXCEPT !["T2"] = <<"T2">>] }
\* the task lists built by add_task_to_workflow
TaskListChoices == { <<"T1", "T2", "T3">>, <<"T3", "T2", "T1">>, <<"T3">> }
\* the descriptions the tasks are created with; add_task accepts a
\* description that another task of the workflow already has
DescriptionChoices ==
    { [t \in Tasks |-> IF t = "T1" THEN "X" ELSE IF t = "T2" THEN "Y" ELSE "Z"],
      [t \in Tasks |-> IF t = "T3" THEN "Z" ELSE "X"] }
RetryChoices == {0, 1}
\* the ways a cycle of an agent can end: the action of A2 is one that can fail
Outcomes == {"ok", "action_error", "raise", "timeout"}
AgentOutcomes(agent) ==
    IF agent = "A2" THEN Outcomes ELSE Outcomes \ {"action_error"}
\* the context argument of execute_workflow
ContextChoices == { <<>>, [x \in {"requirement"} |-> Output("input", 0)] }

\* a call not made yet; root is the task of a direct Task.execute call
NoRun == [pc |-> "idle", order |-> <<>>, k |-> 0, results |-> <<>>, ctx |-> <<>>,
          stack |-> <<>>, out |-> NoOutput, err |-> <<"none", None>>,
          root |-> None,
          status0 |-> [t \in Tasks |-> "pending"],
          result0 |-> [set |-> FALSE, map |-> <<>>]]

\* a frame of Task.execute: the task, the position in its dependency list
\* and the retries counter
Frame(task) == [task |-> task, di |-> 1, retries |-> 0]

\* an entry of the history of the Task.execute calls: the call, the task,
\* what happened (invoke, the outcome of the agent cycle, sleep, on_success,
\* on_failure) and the number of the agent invocation it belongs to
Event(r, task, ev, n) == [run |-> r, task |-> task, ev |-> ev, n |-> n]

\* tasks created without callbacks
NoCallbacks == [t \in Tasks |-> [on_success |-> "none", on_failure |-> FALSE]]
\* the callbacks the tasks are created with: none, both returning, or a
\* failure callback and a success callback that raises
CallbackChoices ==
    { [NoCallbacks EXCEPT !["T1"] = [on_success |-> "returns", on_failure |-> TRUE],
                          !["T3"] = [on_success |-> "raises", on_failure |-> TRUE]],
      [NoCallbacks EXCEPT !["T1"] = [on_success |-> "raises", on_failure |-> TRUE],
                          !["T2"] = [on_success |-> "returns", on_failure |-> TRUE]] }

RECURSIVE Dfs(_, _), DfsAll(_, _)
\* mutant: dfs appends the task to the result before it visits the
\* dependencies
DfsPreOrder(task, st) ==
    IF st.error # None THEN st
    ELSE IF task \in st.temp_visited THEN [st EXCEPT !.error = task]
    ELSE IF task \in st.visited THEN st
    ELSE LET s1 == [st EXCEPT !.temp_visited = @ \cup {task},
                              !.result = Append(@, task)]
             s2 == DfsAll(dependencies[task], s1)
         IN IF s2.error # None THEN s2
            ELSE [s2 EXCEPT !.temp_visited = @ \ {task},
                            !.visited = @ \cup {task}]

\* dfs(task) of _build_execution_order on the state st = (result, visited,
\* temp_visited); error holds the task the cycle was detected at
Dfs(task, st) ==
    IF st.error # None THEN st
    ELSE IF task \in st.temp_visited THEN [st EXCEPT !.error = task]
    ELSE IF task \in st.visited THEN st
    ELSE LET s1 == [st EXCEPT !.temp_visited = @ \cup {task}]
             s2 == DfsAll(dependencies[task], s1)
         IN IF s2.error # None THEN s2
            ELSE [s2 EXCEPT !.temp_visited = @ \ {task},
                            !.visited = @ \cup {task},
                            !.result = Append(@, task)]
\* dfs over a list of tasks, skipping the visited ones
DfsAll(tasks, st) ==
    IF tasks = <<>> \/ st.error # None THEN st
    ELSE DfsAll(Tail(tasks), Dfs(Head(tasks), st))

RECURSIVE DfsMarkFirst(_, _), DfsMarkFirstAll(_, _)
\* mutant: dfs marks a task visited on entry and keeps no temp_visited set,
\* so a dependency cycle is not detected
DfsMarkFirst(task, st) ==
    IF task \in st.visited THEN st
    ELSE LET s2 == DfsMarkFirstAll(dependencies[task],
                                   [st EXCEPT !.visited = @ \cup {task}])
         IN [s2 EXCEPT !.result = Append(@, task)]
DfsMarkFirstAll(tasks, st) ==
    IF tasks = <<>> THEN st
    ELSE DfsMarkFirstAll(Tail(tasks), DfsMarkFirst(Head(tasks), st))

BuildExecutionOrderNoCycleCheck(tasks) ==
    DfsMarkFirstAll(tasks, [result |-> <<>>, visited |-> {}, temp_visited |-> {},
                            error |-> None])

\* WorkflowManager._build_execution_order
BuildExecutionOrder(tasks) ==
    DfsAll(tasks, [result |-> <<>>, visited |-> {}, temp_visited |-> {},
                   error |-> None])

\* the execute_workflow call r is suspended in Environment.publish
Blocked(r) ==
    \E w \in Range(putters) \cup Range(woken) : w.who = <<r, "run">>

SetRun(r, run) == runs' = [runs EXCEPT ![r] = run]

\* mutant: the task-starting message is tagged like the result of a task
StartingMessageAsResult ==
    Message(Len(published) + 1, Output("starting", 0), "result", None,
            "workflow_manager")

\* the message the manager publishes before a task
StartingMessage ==
    Message(Len(published) + 1, Output("starting", 0), "system", None,
            "workflow_manager")

\* execute_workflow("w", context) from the assignment of the active workflow
\* to the publish of the first task-starting message, or to its end when the
\* order is empty or a cycle is detected
ExecuteWorkflowBody(r, context) ==
    /\ active_workflow' = "w"
    /\ LET built == BuildExecutionOrder(wf_tasks)
           run == [NoRun EXCEPT !.ctx = context, !.status0 = status,
                                !.result0 = wf_result]
       IN IF built.error # None
          THEN /\ wf_status' = "failed"
               /\ SetRun(r, [run EXCEPT !.pc = "raised",
                                        !.err = <<"cycle", built.error>>])
               /\ UNCHANGED <<wf_result, message_history, published,
                              message_queue, unfinished_tasks, putters>>
          ELSE IF built.result = <<>>
          THEN /\ wf_status' = "completed"
               /\ wf_result' = [set |-> TRUE, map |-> <<>>]
               /\ SetRun(r, [run EXCEPT !.pc = "returned"])
               /\ UNCHANGED <<message_history, published, message_queue,
                              unfinished_tasks, putters>>
          ELSE /\ wf_status' = "running"
               /\ SetRun(r, [run EXCEPT !.pc = "call", !.order = built.result,
                                        !.k = 1])
               /\ Publish(<<r, "run">>, StartingMessage)
               /\ UNCHANGED wf_result
    /\ UNCHANGED <<subscriptions, woken, loop_pc, round, gather_exc, calls,
                   dequeued, wf_tasks, description, dependencies, max_retries,
                   timeout, status, result, agent_calls, callbacks, events>>

\* WorkflowManager.execute_workflow(name, context) for the registered
\* workflow, called when no other execution is in progress
ExecuteWorkflow(r, context) ==
    /\ runs[r].pc = "idle"
    /\ \A q \in RunIds \ {r} : runs[q].pc \in {"idle", "returned", "raised"}
    /\ IF r = 1 THEN TRUE ELSE runs[r - 1].pc # "idle"
    /\ ExecuteWorkflowBody(r, context)

\* the manager calls task.execute(ctx) for the task at position k
TaskCall(r) ==
    /\ runs[r].pc = "call"
    /\ ~Blocked(r)
    /\ SetRun(r, [runs[r] EXCEPT !.pc = "deps",
                                 !.stack = <<Frame(runs[r].order[runs[r].k])>>])
    /\ UNCHANGED <<busVars, wf_tasks, description, dependencies, max_retries,
                   timeout, status, result, wf_status, wf_result,
                   active_workflow, agent_calls, callbacks, events>>

\* a result that passes the test "if dep.result"
Truthy(o) == o.kind \notin {"none", "empty"}

\* the context dictionary after an attempt of task has merged the results of
\* its dependencies: the manager's dictionary is written only when the task
\* was called by the manager with a non-empty one ("context or {}")
Merged(ctx, task, depth) ==
    IF depth # 1 \/ DOMAIN ctx = {} THEN ctx
    ELSE [x \in DOMAIN ctx \cup
               {description[d] : d \in {e \in Range(dependencies[task]) : Truthy(result[e])}} |->
            LET ds == {j \in 1..Len(dependencies[task]) :
                          /\ Truthy(result[dependencies[task][j]])
                          /\ description[dependencies[task][j]] = x}
            IN IF ds = {} THEN ctx[x]
               ELSE result[dependencies[task][CHOOSE j \in ds : \A h \in ds : h <= j]]]

\* mutant: the dependencies are taken as completed
NotCompletedNone(deps, from) ==
    {}

\* the positions, from a given one on, of the dependencies that are not
\* completed
NotCompleted(deps, from) ==
    {j \in from..Len(deps) : status[deps[j]] # "completed"}

\* Task.execute from its start to the first invocation of its agent:
\* a dependency that is not completed is executed first, else the task
\* becomes running and awaits agent.run
TaskDeps(r) ==
    /\ runs[r].pc = "deps"
    /\ LET run == runs[r]
           depth == Len(run.stack)
           top == run.stack[depth]
           deps == dependencies[top.task]
           todo == NotCompleted(deps, top.di)
       IN IF todo # {}
          THEN LET j == CHOOSE j \in todo : \A h \in todo : j <= h
               IN /\ SetRun(r, [run EXCEPT !.stack =
                        Append([run.stack EXCEPT ![depth].di = j + 1], Frame(deps[j]))])
                  /\ UNCHANGED <<status, agent_calls, events>>
          ELSE /\ status' = [status EXCEPT ![top.task] = "running"]
               /\ SetRun(r, [run EXCEPT !.pc = "agent",
                                        !.stack[depth].retries = 0,
                                        !.ctx = Merged(run.ctx, top.task, depth)])
               /\ agent_calls' = Append(agent_calls, [run |-> r, task |-> top.task])
               /\ events' = Append(events, Event(r, top.task, "invoke",
                                                 Len(agent_calls) + 1))
    /\ UNCHANGED <<busVars, wf_tasks, description, dependencies, max_retries,
                   timeout, result, wf_status, wf_result, active_workflow,
                   callbacks>>

\* the error of a task leaves Task.execute: the frames of the dependent tasks
\* are left without a change of theirs. A direct call has raised; in
\* execute_workflow the manager publishes the ERROR message of the task it
\* had called
TaskRaises(r, error) ==
    IF runs[r].root # None
    THEN /\ SetRun(r, [runs[r] EXCEPT !.pc = "raised", !.stack = <<>>, !.err = error])
         /\ UNCHANGED <<message_history, published, message_queue,
                        unfinished_tasks, putters>>
    ELSE /\ SetRun(r, [runs[r] EXCEPT !.pc = "failing", !.stack = <<>>, !.err = error])
         /\ Publish(<<r, "run">>,
                    Message(Len(published) + 1, Output("error", Len(agent_calls)), "error",
                            None, description[runs[r].order[runs[r].k]]))

\* the success callback of a task, when it has one
OnSuccess(r, task, n) ==
    IF callbacks[task].on_success # "none"
    THEN <<Event(r, task, "on_success", n)>> ELSE <<>>

\* mutant: the failure callback is not invoked
OnFailureSkipped(r, task, n) ==
    <<>>

\* the failure callback of a task, when it has one, invoked with the last error
OnFailure(r, task, n) ==
    IF callbacks[task].on_failure
    THEN <<Event(r, task, "on_failure", n)>> ELSE <<>>

\* mutant: the task that awaited the failed one is marked failed as well
TaskFailsWithDependent(r, log, error) ==
    /\ status' = [status EXCEPT ![error[2]] = "failed",
                                ![runs[r].stack[1].task] = "failed"]
    /\ events' = log \o OnFailure(r, error[2], error[3])
    /\ TaskRaises(r, error)

\* the end of Task.execute after the retry loop: the task is failed, the
\* failure callback is invoked and the last error (kind, task, number of the
\* agent invocation) is raised; log is the history up to here
TaskFails(r, log, error) ==
    /\ status' = [status EXCEPT ![error[2]] = "failed"]
    /\ events' = log \o OnFailure(r, error[2], error[3])
    /\ TaskRaises(r, error)

\* mutant: the loop ends one attempt earlier
AttemptRaisedOneFewer(r, log, st, error) ==
    LET run == runs[r]
        depth == Len(run.stack)
        top == run.stack[depth]
    IN IF top.retries + 1 < max_retries[top.task]
       THEN /\ SetRun(r, [run EXCEPT !.pc = "sleep",
                                     !.stack[depth].retries = @ + 1])
            /\ status' = st
            /\ events' = Append(log, Event(r, top.task, "sleep", error[3]))
            /\ UNCHANGED <<message_history, published, message_queue,
                           unfinished_tasks, putters>>
       ELSE TaskFails(r, log, error)

\* "except Exception" of the retry loop: the retries counter grows and the
\* task sleeps retry_delay, or the loop ends when no retry is left; st is the
\* status of the tasks at this point
AttemptRaised(r, log, st, error) ==
    LET run == runs[r]
        depth == Len(run.stack)
        top == run.stack[depth]
    IN IF top.retries + 1 <= max_retries[top.task]
       THEN /\ SetRun(r, [run EXCEPT !.pc = "sleep",
                                     !.stack[depth].retries = @ + 1])
            /\ status' = st
            /\ events' = Append(log, Event(r, top.task, "sleep", error[3]))
            /\ UNCHANGED <<message_history, published, message_queue,
                           unfinished_tasks, putters>>
       ELSE TaskFails(r, log, error)

\* mutant: a timeout is handled as any other error of the attempt
AttemptTimedOutRetried(r, log, error) ==
    AttemptRaised(r, log, status, error)

\* "except asyncio.TimeoutError" of the retry loop: the loop ends at once
AttemptTimedOut(r, log, error) ==
    TaskFails(r, log, error)

\* mutant: the error of the action leaves agent.run and the attempt
ActionErrorRaised(r, log, error) ==
    AttemptRaised(r, log, status, error)

\* the action of the agent raised: _act catches the error and agent.run
\* returns the failure text to the attempt, which publishes nothing
ActionErrorReturned(r, log, error) ==
    /\ SetRun(r, [runs[r] EXCEPT !.pc = "agent_ret",
                                 !.out = Output("failure", error[3])])
    /\ events' = log
    /\ UNCHANGED <<status, message_history, published, message_queue,
                   unfinished_tasks, putters>>

\* the agent cycle awaited by Task.execute ends. ok: the action succeeded,
\* Role._act publishes its output and run returns the text; action_error:
\* the action raised and run returns the failure text; raise: run itself
\* raised; timeout: asyncio.wait_for gave up.
AgentFinish(r, outcome) ==
    /\ runs[r].pc = "agent"
    /\ LET run == runs[r]
           depth == Len(run.stack)
           top == run.stack[depth]
           n == Len(agent_calls)
           log == Append(events, Event(r, top.task, outcome, n))
       IN /\ outcome \in AgentOutcomes(AgentOf(top.task))
          /\ CASE outcome = "ok" ->
                    /\ SetRun(r, [run EXCEPT !.pc = "agent_ret", !.out = Output("executed", n)])
                    /\ Publish(<<r, "run">>,
                               Message(Len(published) + 1, Output("result", n), "text",
                                       AgentOf(top.task), ActionName))
                    /\ events' = log
                    /\ UNCHANGED status
               [] outcome = "action_error" ->
                    ActionErrorReturned(r, log, <<"error", top.task, n>>)
               [] outcome = "raise" ->
                    AttemptRaised(r, log, status, <<"error", top.task, n>>)
               [] outcome = "timeout" ->
                    /\ timeout[top.task]
                    /\ AttemptTimedOut(r, log, <<"timeout", top.task, n>>)
    /\ UNCHANGED <<subscriptions, woken, loop_pc, round, gather_exc, calls,
                   dequeued, wf_tasks, description, dependencies, max_retries,
                   timeout, result, wf_status, wf_result, active_workflow,
                   agent_calls, callbacks>>

\* asyncio.sleep(retry_delay) is over: the next attempt invokes the agent
TaskRetry(r) ==
    /\ runs[r].pc = "sleep"
    /\ LET run == runs[r]
           depth == Len(run.stack)
       IN /\ SetRun(r, [run EXCEPT !.pc = "agent",
                                   !.ctx = Merged(run.ctx, run.stack[depth].task, depth)])
          /\ agent_calls' = Append(agent_calls, [run |-> r, task |-> run.stack[depth].task])
          /\ events' = Append(events, Event(r, run.stack[depth].task, "invoke",
                                            Len(agent_calls) + 1))
    /\ UNCHANGED <<busVars, wf_tasks, description, dependencies, max_retries,
                   timeout, status, result, wf_status, wf_result, active_workflow,
                   callbacks>>

\* agent.run has returned: the task records the result, becomes completed,
\* invokes the success callback and returns; a direct call has returned, and
\* in execute_workflow the manager stores the result of the task it had
\* called, updates the context and publishes the RESULT message
TaskReturn(r) ==
    /\ runs[r].pc = "agent_ret"
    /\ ~Blocked(r)
    /\ LET run == runs[r]
           depth == Len(run.stack)
           task == run.stack[depth].task
       IN /\ callbacks[task].on_success # "raises"
          /\ result' = [result EXCEPT ![task] = run.out]
          /\ status' = [status EXCEPT ![task] = "completed"]
          /\ events' = events \o OnSuccess(r, task, run.out.n)
          /\ IF depth > 1
             THEN /\ SetRun(r, [run EXCEPT !.pc = "deps",
                                           !.stack = SubSeq(run.stack, 1, depth - 1)])
                  /\ UNCHANGED busVars
             ELSE IF run.root # None
             THEN /\ SetRun(r, [run EXCEPT !.pc = "returned", !.stack = <<>>])
                  /\ UNCHANGED busVars
             ELSE /\ SetRun(r, [run EXCEPT
                         !.pc = "advance", !.stack = <<>>,
                         !.results = Put(run.results, description[task], run.out),
                         !.ctx = Put(run.ctx, description[task], run.out)])
                  /\ Publish(<<r, "run">>,
                             Message(Len(published) + 1, run.out, "result", None,
                                     description[task]))
                  /\ UNCHANGED <<subscriptions, woken, loop_pc, round, gather_exc,
                                 calls, dequeued>>
    /\ UNCHANGED <<wf_tasks, description, dependencies, max_retries, timeout,
                   wf_status, wf_result, active_workflow, agent_calls, callbacks>>

\* agent.run has returned and the success callback raises: the result is
\* recorded and the task completed, and the error of the callback is
\* handled by the "except Exception" of the retry loop
TaskCallbackRaises(r) ==
    /\ runs[r].pc = "agent_ret"
    /\ ~Blocked(r)
    /\ LET run == runs[r]
           task == run.stack[Len(run.stack)].task
       IN /\ callbacks[task].on_success = "raises"
          /\ result' = [result EXCEPT ![task] = run.out]
          /\ AttemptRaised(r, Append(events, Event(r, task, "on_success", run.out.n)),
                           [status EXCEPT ![task] = "completed"],
                           <<"callback_error", task, run.out.n>>)
    /\ UNCHANGED <<subscriptions, woken, loop_pc, round, gather_exc, calls,
                   dequeued, wf_tasks, description, dependencies, max_retries,
                   timeout, wf_status, wf_result, active_workflow, agent_calls,
                   callbacks>>

\* the loop of execute_workflow goes on to the next task, or the workflow
\* is completed and its result stored
Advance(r) ==
    /\ runs[r].pc = "advance"
    /\ ~Blocked(r)
    /\ LET run == runs[r]
       IN IF run.k < Len(run.order)
          THEN /\ SetRun(r, [run EXCEPT !.pc = "call", !.k = @ + 1])
               /\ Publish(<<r, "run">>, StartingMessage)
               /\ UNCHANGED <<wf_status, wf_result>>
          ELSE /\ SetRun(r, [run EXCEPT !.pc = "returned"])
               /\ wf_status' = "completed"
               /\ wf_result' = [set |-> TRUE, map |-> run.results]
               /\ UNCHANGED <<message_history, published, message_queue,
                              unfinished_tasks, putters>>
    /\ UNCHANGED <<subscriptions, woken, loop_pc, round, gather_exc, calls,
                   dequeued, wf_tasks, description, dependencies, max_retries,
                   timeout, status, result, active_workflow, agent_calls,
                   callbacks, events>>

\* mutant: the failed call stores the results of the tasks executed so far
ExecuteFailedStoringResults(r) ==
    /\ runs[r].pc = "failing"
    /\ ~Blocked(r)
    /\ wf_status' = "failed"
    /\ wf_result' = [set |-> TRUE, map |-> runs[r].results]
    /\ SetRun(r, [runs[r] EXCEPT !.pc = "raised"])
    /\ UNCHANGED <<busVars, wf_tasks, description, dependencies, max_retries,
                   timeout, status, result, active_workflow, agent_calls,
                   callbacks, events>>

\* the ERROR message is published: the workflow becomes failed and
\* execute_workflow re-raises
ExecuteFailed(r) ==
    /\ runs[r].pc = "failing"
    /\ ~Blocked(r)
    /\ wf_status' = "failed"
    /\ SetRun(r, [runs[r] EXCEPT !.pc = "raised"])
    /\ UNCHANGED <<busVars, wf_tasks, description, dependencies, max_retries,
                   timeout, status, result, wf_result, active_workflow,
                   agent_calls, callbacks, events>>

\* ------------------------------------------------------------ the agent
CycleIds == 1..MaxCycles
\* Role.name of the agent
RoleName == "Assistant"
RoleReactMode == {"react", "by_order", "plan_and_act"}
\* the actions an agent is given, each named by its class
ActionClasses == {"WritePRD", "ChatAction"}
\* type(action).__name__
ClassName(action) == action
\* Action.name, a field every subclass gives its own default
ActionNameOf(action) == IF action = "ChatAction" THEN "Chat" ELSE action
\* the lists set_actions is called with
ActionListChoices == { <<>>, <<"WritePRD", "ChatAction">> }

\* RoleContext() as the constructor of Role builds it
NoContext == [msg_buffer |-> <<>>, state |-> -1, todo |-> None, actions |-> <<>>]
NoPlan == [set |-> FALSE, actions |-> <<>>]
\* a call of run or handle_message that has not been made; the fields after
\* pc are history: kind of call, set_actions calls before it, whether no
\* other cycle was in progress when it started, the list and the cursor
\* _think saw, the cursor it left, what it selected, the action _act
\* awaited, how that action ended, and the value the call returned
NoCycle == [pc |-> "idle", kind |-> None, gen |-> 0, alone |-> FALSE,
            actions |-> <<>>, state0 |-> -1, state1 |-> -1, selected |-> None,
            ran |-> None, outcome |-> None, out |-> NoOutput]

\* the cycle c is suspended in Environment.publish
CycleBlocked(c) ==
    \E w \in Range(putters) \cup Range(woken) : w.who = <<c, "cycle">>

\* the cycle c is between its first and its last step
InProgress(c) == cycles[c].pc \in {"acting", "publishing"}

\* list[i] of a Python list, whose first index is 0
At(list, i) == list[i + 1]

\* Role._observe(message)
Observe(ctx, message) == [ctx EXCEPT !.msg_buffer = Append(@, message)]

\* Role._extract_task_from_messages()
ExtractTaskFromMessages(ctx) ==
    IF ctx.msg_buffer = <<>> THEN Output("empty", 0)
    ELSE ctx.msg_buffer[Len(ctx.msg_buffer)]

\* Role.get_plan(task_description)
GetPlan(ctx, task) == ctx.actions

\* Role._think(): the context and the plan it leaves, and what it returns
Think(ctx, mode, pl) ==
    IF ctx.actions = <<>>
    THEN [rc |-> ctx, plan |-> pl, selected |-> FALSE]
    ELSE LET planning == mode = "plan_and_act" /\ (~pl.set \/ pl.actions = <<>>)
             pl1 == IF planning
                    THEN [set |-> TRUE,
                          actions |-> GetPlan(ctx, ExtractTaskFromMessages(ctx))]
                    ELSE pl
             ctx1 == IF planning THEN [ctx EXCEPT !.actions = pl1.actions] ELSE ctx
         IN IF ctx1.state < Len(ctx1.actions) - 1
            THEN [rc |-> [ctx1 EXCEPT !.state = @ + 1,
                                      !.todo = At(ctx1.actions, ctx1.state + 1)],
                  plan |-> pl1, selected |-> TRUE]
            ELSE [rc |-> ctx1, plan |-> pl1, selected |-> FALSE]

\* mutant: set_actions leaves the cursor where it is
SetActionsKeepingCursor(actions) ==
    rc' = [rc EXCEPT !.actions = actions]

\* the assignments of Role.set_actions(actions)
SetActionsBody(actions) ==
    rc' = [rc EXCEPT !.actions = actions, !.state = -1]

\* Role.set_actions(actions), called between two cycles of the agent
SetActions(actions) ==
    /\ set_actions_calls < MaxSets
    /\ \A c \in CycleIds : ~InProgress(c)
    /\ SetActionsBody(actions)
    /\ set_actions_calls' = set_actions_calls + 1
    /\ UNCHANGED <<busVars, wfVars, react_mode, environment, plan, cycles>>

\* Role.run(with_message) or Role.handle_message(message), from _observe
\* through _think to the await of the pending action's run in _act, or to
\* the return of _act when there is no pending action. The callers keep one
\* cycle of each kind in progress at most: Task.execute awaits run, and
\* Environment.run awaits the callbacks of a message before the next message.
CycleStart(c, kind) ==
    /\ cycles[c].pc = "idle"
    /\ IF c = 1 THEN TRUE ELSE cycles[c - 1].pc # "idle"
    /\ \A d \in CycleIds : InProgress(d) => cycles[d].kind # kind
    /\ LET th == Think(Observe(rc, Output("input", c)), react_mode, plan)
           cy == [NoCycle EXCEPT !.kind = kind, !.gen = set_actions_calls,
                                 !.alone = \A d \in CycleIds : ~InProgress(d),
                                 !.actions = th.rc.actions,
                                 !.state0 = rc.state, !.state1 = th.rc.state,
                                 !.selected = IF th.selected THEN th.rc.todo ELSE None]
       IN /\ rc' = th.rc
          /\ plan' = th.plan
          /\ cycles' = [cycles EXCEPT ![c] =
                IF th.rc.todo = None
                THEN [cy EXCEPT !.pc = "returned",
                                !.out = IF kind = "run" THEN Output("empty", 0)
                                        ELSE NoOutput]
                ELSE [cy EXCEPT !.pc = "acting", !.ran = th.rc.todo]]
    /\ UNCHANGED <<busVars, wfVars, react_mode, environment, set_actions_calls>>

\* mutant: the error of the action leaves _act and the cycle
ActionRaisedPropagating(c) ==
    [cycles[c] EXCEPT !.pc = "raised", !.outcome = "raise"]

\* the except branch of _act: the cycle returns the failure text
ActionRaised(c) ==
    [cycles[c] EXCEPT !.pc = "returned", !.outcome = "raise",
                      !.out = IF cycles[c].kind = "run"
                              THEN Output("action_error", c) ELSE NoOutput]

\* the message _act publishes after the action run by cycle c returned
ActionMessage(c) ==
    Message(Len(published) + 1, Output("output", c), "text", RoleName,
            ClassName(rc.todo))

\* _act returns after the action of cycle c returned and its message, if
\* any, is in the queue
ActionDone(c) ==
    [cycles[c] EXCEPT !.pc = "returned", !.outcome = "ok",
                      !.out = IF cycles[c].kind = "run"
                              THEN Output("executed", c) ELSE NoOutput]

\* the run of the pending action ends: with an error, which _act turns into
\* its return value, or with a result, which _act publishes when the agent
\* has an environment; Queue.put suspends the cycle when the queue is full
ActionFinish(c, outcome) ==
    /\ cycles[c].pc = "acting"
    /\ IF outcome = "raise"
       THEN /\ cycles' = [cycles EXCEPT ![c] = ActionRaised(c)]
            /\ UNCHANGED <<message_history, published, message_queue,
                           unfinished_tasks, putters>>
       ELSE IF environment
       THEN /\ cycles' = [cycles EXCEPT ![c] =
                             IF Full(message_queue)
                             THEN [@ EXCEPT !.pc = "publishing", !.outcome = "ok"]
                             ELSE ActionDone(c)]
            /\ Publish(<<c, "cycle">>, ActionMessage(c))
       ELSE /\ cycles' = [cycles EXCEPT ![c] = ActionDone(c)]
            /\ UNCHANGED <<message_history, published, message_queue,
                           unfinished_tasks, putters>>
    /\ UNCHANGED <<subscriptions, woken, loop_pc, round, gather_exc, calls,
                   dequeued, wfVars, rc, react_mode, environment, plan,
                   set_actions_calls>>

\* the suspended publish of cycle c has put its message: _act returns, and
\* with it run or handle_message
CycleReturn(c) ==
    /\ cycles[c].pc = "publishing"
    /\ ~CycleBlocked(c)
    /\ cycles' = [cycles EXCEPT ![c] = ActionDone(c)]
    /\ UNCHANGED <<busVars, wfVars, rc, react_mode, environment, plan,
                   set_actions_calls>>

\* the agent as its constructor leaves it, never invoked
RoleIdle ==
    /\ rc = NoContext
    /\ react_mode = "by_order"
    /\ environment = FALSE
    /\ plan = NoPlan
    /\ cycles = [c \in CycleIds |-> NoCycle]
    /\ set_actions_calls = 0

\* the names workflows are created, looked up and deleted under; the tasks,
\* the status and the result of the model are those of the workflow "w", and
\* a workflow created under another name has no tasks
Names == {"w", "v"}

\* a call and the value it returned (or the error it raised); args holds the
\* arguments after the name, for the calls that have some
Reply(op, name, value) ==
    [op |-> op, name |-> name, value |-> value, args |-> <<>>]

\* get_workflow(name) finds a workflow and its status is the given one; a
\* workflow without tasks is executed without a suspension, so that no other
\* call finds it running or paused
HasStatus(name, st) == name \in workflows /\ name = "w" /\ wf_status = st

\* the manager with the workflow "w" registered and the bus constructed,
\* before any other call
MgrIdle ==
    /\ workflows = {"w"}
    /\ reply = Reply(None, None, None)
    /\ initialized = TRUE

\* the manager and its workflow before any execute_workflow call
WfIdle ==
    /\ status = [t \in Tasks |-> "pending"]
    /\ result = [t \in Tasks |-> NoOutput]
    /\ wf_status = "pending"
    /\ wf_result = [set |-> FALSE, map |-> <<>>]
    /\ active_workflow = None
    /\ agent_calls = <<>>
    /\ events = <<>>

\* the bus alone: a workflow without tasks that is never executed
Init ==
    /\ BusInit
    /\ WfIdle
    /\ MgrIdle
    /\ ActionIdle
    /\ RoleIdle
    /\ runs = [r \in RunIds |-> NoRun]
    /\ wf_tasks = <<>>
    /\ description = [t \in Tasks |-> t]
    /\ dependencies = NoDeps
    /\ max_retries = [t \in Tasks |-> 0]
    /\ timeout = [t \in Tasks |-> FALSE]
    /\ callbacks = NoCallbacks

BusStep == BusActions /\ UNCHANGED restVars

Next == BusStep \/ (CancelLoop /\ UNCHANGED restVars)

Spec == Init /\ [][Next]_vars

\* a workflow built by create_workflow, add_task_to_workflow and
\* set_task_dependencies, on a bus without subscribers; its tasks are
\* created either with a timeout and no retry, or with one retry and no
\* timeout
WfInit ==
    /\ BusInit
    /\ WfIdle
    /\ MgrIdle
    /\ ActionIdle
    /\ RoleIdle
    /\ runs = [r \in RunIds |-> NoRun]
    /\ callbacks = NoCallbacks
    /\ wf_tasks \in TaskListChoices
    /\ description \in DescriptionChoices
    /\ dependencies \in DependencyChoices
    /\ \E m \in RetryChoices :
          /\ max_retries = [t \in Tasks |-> m]
          /\ timeout = [t \in Tasks |-> m = 0]

WfNext ==
    \/ \E r \in RunIds, context \in ContextChoices : ExecuteWorkflow(r, context) /\ UNCHANGED <<roleVars, mgrVars, actVars>>
    \/ \E r \in RunIds : TaskCall(r) /\ UNCHANGED <<roleVars, mgrVars, actVars>>
    \/ \E r \in RunIds : TaskDeps(r) /\ UNCHANGED <<roleVars, mgrVars, actVars>>
    \/ \E r \in RunIds, outcome \in Outcomes : AgentFinish(r, outcome) /\ UNCHANGED <<roleVars, mgrVars, actVars>>
    \/ \E r \in RunIds : TaskRetry(r) /\ UNCHANGED <<roleVars, mgrVars, actVars>>
    \/ \E r \in RunIds : TaskReturn(r) /\ UNCHANGED <<roleVars, mgrVars, actVars>>
    \/ \E r \in RunIds : Advance(r) /\ UNCHANGED <<roleVars, mgrVars, actVars>>
    \/ \E r \in RunIds : ExecuteFailed(r) /\ UNCHANGED <<roleVars, mgrVars, actVars>>
    \/ RunStart /\ UNCHANGED restVars
    \/ RunGet /\ UNCHANGED restVars
    \/ PutResume /\ UNCHANGED restVars

WfSpec == WfInit /\ [][WfNext]_vars

\* ---------------------------------------------------- the execution order
\* the dependency lists a task is created with: empty, single, several, a
\* task listed twice
DepListChoices ==
    { <<>>, <<"T1">>, <<"T2">>, <<"T3">>, <<"T1", "T2">>, <<"T2", "T1">>,
      <<"T1", "T1">>, <<"T2", "T1", "T2">>, <<"T1", "T3">> }

\* _build_execution_order(workflow) called for the workflow as it is
BuildExecutionOrderCall(r) ==
    /\ runs[r].pc = "idle"
    /\ LET built == BuildExecutionOrder(wf_tasks)
       IN IF built.error # None
          THEN SetRun(r, [NoRun EXCEPT !.pc = "raised", !.err = <<"cycle", built.error>>])
          ELSE SetRun(r, [NoRun EXCEPT !.pc = "built", !.order = built.result])
    /\ UNCHANGED <<busVars, roleVars, mgrVars, actVars, wf_tasks, description,
                   dependencies, max_retries, timeout, status, result,
                   wf_status, wf_result, active_workflow, agent_calls,
                   callbacks, events>>

\* every workflow of one to three tasks whose tasks have dependency lists
\* of DepListChoices; a task that is only a dependency is not in the list
\* of the workflow
OrderInit ==
    /\ BusInit
    /\ WfIdle
    /\ MgrIdle
    /\ ActionIdle
    /\ RoleIdle
    /\ runs = [r \in RunIds |-> NoRun]
    /\ callbacks = NoCallbacks
    /\ wf_tasks \in TaskListChoices
    /\ description = [t \in Tasks |-> t]
    /\ dependencies \in [Tasks -> DepListChoices]
    /\ max_retries = [t \in Tasks |-> 0]
    /\ timeout = [t \in Tasks |-> FALSE]

OrderNext == \E r \in RunIds : BuildExecutionOrderCall(r)

OrderSpec == OrderInit /\ [][OrderNext]_vars

\* ------------------------------------------- the messages of an execution
\* a workflow of three tasks without a dependency cycle, the descriptions
\* distinct or not, the tasks created with a timeout and no retry or with
\* one retry and no timeout
MessageInit ==
    /\ BusInit
    /\ WfIdle
    /\ MgrIdle
    /\ ActionIdle
    /\ RoleIdle
    /\ runs = [r \in RunIds |-> NoRun]
    /\ callbacks = NoCallbacks
    /\ wf_tasks = <<"T3", "T2", "T1">>
    /\ description \in DescriptionChoices
    /\ dependencies \in {d \in DependencyChoices :
                            \A t \in Tasks : ~(\E u \in Range(d[t]) : t \in Range(d[u]) \/ u = t)}
    /\ \E m \in RetryChoices :
          /\ max_retries = [t \in Tasks |-> m]
          /\ timeout = [t \in Tasks |-> m = 0]

MessageSpec == MessageInit /\ [][WfNext]_vars

\* ------------------------------------------------------ pausing a workflow
\* WorkflowManager.pause_workflow(name) for the registered workflow: only a
\* running workflow is paused, otherwise the call reports failure
\* mutant: a registered workflow is paused whatever its status
PauseWorkflowAnyStatus(name) ==
    /\ IF name = "w" /\ name \in workflows
       THEN /\ wf_status' = "paused"
            /\ reply' = Reply("pause_workflow", name, "True")
       ELSE /\ wf_status' = wf_status
            /\ reply' = Reply("pause_workflow", name, "False")
    /\ UNCHANGED <<busVars, roleVars, wf_tasks, description, dependencies,
                   max_retries, timeout, status, result, wf_result,
                   active_workflow, runs, agent_calls, callbacks, events,
                   workflows, initialized, actVars>>

PauseWorkflow(name) ==
    /\ IF HasStatus(name, "running")
       THEN /\ wf_status' = "paused"
            /\ reply' = Reply("pause_workflow", name, "True")
       ELSE /\ wf_status' = wf_status
            /\ reply' = Reply("pause_workflow", name, "False")
    /\ UNCHANGED <<busVars, roleVars, wf_tasks, description, dependencies,
                   max_retries, timeout, status, result, wf_result,
                   active_workflow, runs, agent_calls, callbacks, events,
                   workflows, initialized, actVars>>

PauseNext == WfNext \/ \E name \in Names : PauseWorkflow(name)

\* a workflow that is executed and may be paused at any moment
PauseSpec == WfInit /\ [][PauseNext]_vars

\* ----------------------------------------------------- resuming a workflow
\* the execute_workflow call made from outside (1) and the one that a
\* resume_workflow call starts (2)
ResumeIds == {1, 2}

\* WorkflowManager.resume_workflow(name): a paused workflow is set running
\* and asyncio.create_task schedules _resume_execution for it; otherwise the
\* call reports failure
ResumeWorkflow(name) ==
    /\ IF HasStatus(name, "paused")
       THEN /\ \E r \in ResumeIds :
                 /\ r > 1
                 /\ runs[r].pc = "idle"
                 /\ runs[r - 1].pc # "idle"
                 /\ SetRun(r, [NoRun EXCEPT !.pc = "scheduled"])
            /\ wf_status' = "running"
            /\ reply' = Reply("resume_workflow", name, "True")
       ELSE /\ reply' = Reply("resume_workflow", name, "False")
            /\ UNCHANGED <<wf_status, runs>>
    /\ UNCHANGED <<busVars, roleVars, wf_tasks, description, dependencies,
                   max_retries, timeout, status, result, wf_result,
                   active_workflow, agent_calls, callbacks, events,
                   workflows, initialized, actVars>>

\* mutant: the resumed execution continues with the tasks that are not
\* completed
ResumeExecutionFromCheckpoint(r) ==
    /\ runs[r].pc = "scheduled"
    /\ LET left == SelectSeq(BuildExecutionOrder(wf_tasks).result,
                             LAMBDA t : status[t] # "completed")
       IN IF left = <<>>
          THEN /\ SetRun(r, [NoRun EXCEPT !.pc = "returned", !.status0 = status])
               /\ wf_status' = "completed"
               /\ UNCHANGED <<message_history, published, message_queue,
                              unfinished_tasks, putters>>
          ELSE /\ SetRun(r, [NoRun EXCEPT !.pc = "call", !.order = left, !.k = 1,
                                          !.status0 = status])
               /\ wf_status' = "running"
               /\ Publish(<<r, "run">>, StartingMessage)
    /\ active_workflow' = "w"
    /\ UNCHANGED <<subscriptions, woken, loop_pc, round, gather_exc, calls,
                   dequeued, wf_tasks, description, dependencies, max_retries,
                   timeout, status, result, wf_result, agent_calls, callbacks,
                   events, roleVars, mgrVars, actVars>>

\* WorkflowManager._resume_execution(workflow) starts: it calls
\* execute_workflow(workflow.name) without a context, which raises when the
\* name is no longer registered; _resume_execution logs whatever
\* execute_workflow raises
ResumeExecution(r) ==
    /\ runs[r].pc = "scheduled"
    /\ IF "w" \in workflows
       THEN ExecuteWorkflowBody(r, <<>>)
       ELSE /\ SetRun(r, [NoRun EXCEPT !.pc = "raised", !.err = <<"unknown", "w">>])
            /\ UNCHANGED <<busVars, wf_tasks, description, dependencies,
                           max_retries, timeout, status, result, wf_status,
                           wf_result, active_workflow, agent_calls, callbacks,
                           events>>
    /\ UNCHANGED <<roleVars, mgrVars, actVars>>

\* the outside execute_workflow call awaits the agent of the last task of its
\* order
LastTaskInFlight ==
    /\ runs[1].pc = "agent"
    /\ runs[1].k = Len(runs[1].order)

\* a workflow of two tasks, the second depending on the first, whose tasks
\* are created without retries, timeouts and callbacks
ResumeInit ==
    /\ BusInit
    /\ WfIdle
    /\ MgrIdle
    /\ ActionIdle
    /\ RoleIdle
    /\ runs = [r \in ResumeIds |-> NoRun]
    /\ wf_tasks = <<"T1", "T3">>
    /\ description = [t \in Tasks |-> t]
    /\ dependencies = [NoDeps EXCEPT !["T3"] = <<"T1">>]
    /\ max_retries = [t \in Tasks |-> 0]
    /\ timeout = [t \in Tasks |-> FALSE]
    /\ callbacks = NoCallbacks

ResumeNext ==
    \/ ExecuteWorkflow(1, <<>>) /\ UNCHANGED <<roleVars, mgrVars, actVars>>
    \/ \E name \in Names :
          (HasStatus(name, "running") => LastTaskInFlight) /\ PauseWorkflow(name)
    \/ \E name \in Names : ResumeWorkflow(name)
    \/ \E r \in ResumeIds : ResumeExecution(r)
    \/ \E r \in ResumeIds : TaskCall(r) /\ UNCHANGED <<roleVars, mgrVars, actVars>>
    \/ \E r \in ResumeIds : TaskDeps(r) /\ UNCHANGED <<roleVars, mgrVars, actVars>>
    \/ \E r \in ResumeIds, outcome \in Outcomes : AgentFinish(r, outcome) /\ UNCHANGED <<roleVars, mgrVars, actVars>>
    \/ \E r \in ResumeIds : TaskReturn(r) /\ UNCHANGED <<roleVars, mgrVars, actVars>>
    \/ \E r \in ResumeIds : Advance(r) /\ UNCHANGED <<roleVars, mgrVars, actVars>>
    \/ \E r \in ResumeIds : ExecuteFailed(r) /\ UNCHANGED <<roleVars, mgrVars, actVars>>
    \/ RunStart /\ UNCHANGED restVars
    \/ RunGet /\ UNCHANGED restVars
    \/ PutResume /\ UNCHANGED restVars

\* a workflow that is executed, paused and resumed, the dispatch loop of the
\* bus running; pause_workflow and resume_workflow are called at any moment,
\* with the name of the workflow and with a name that is not registered, but
\* the call that pauses the running workflow is made while the outside
\* execution awaits the agent of its last task
ResumeSpec == ResumeInit /\ [][ResumeNext]_vars

\* ------------------------------------------------- the registry of workflows
\* WorkflowManager.create_workflow(name) for a name other than "w": the
\* workflow it registers has no tasks
CreateWorkflow(name) ==
    /\ name # "w"
    /\ workflows' = workflows \cup {name}
    /\ reply' = Reply("create_workflow", name, "Workflow")
    /\ UNCHANGED <<busVars, wfVars, roleVars, initialized, actVars>>

\* WorkflowManager.set_active_workflow(name)
SetActiveWorkflow(name) ==
    /\ IF name \notin workflows
       THEN /\ reply' = Reply("set_active_workflow", name, "False")
            /\ UNCHANGED active_workflow
       ELSE /\ active_workflow' = name
            /\ reply' = Reply("set_active_workflow", name, "True")
    /\ UNCHANGED <<busVars, roleVars, wf_tasks, description, dependencies,
                   max_retries, timeout, status, result, wf_status, wf_result,
                   runs, agent_calls, callbacks, events, workflows, initialized, actVars>>

\* mutant: the workflow is removed and the active pointer is left alone
DeleteWorkflowKeepingPointer(name) ==
    /\ IF name \notin workflows
       THEN /\ reply' = Reply("delete_workflow", name, "False")
            /\ UNCHANGED workflows
       ELSE /\ workflows' = workflows \ {name}
            /\ reply' = Reply("delete_workflow", name, "True")
    /\ UNCHANGED <<busVars, wfVars, roleVars, initialized, actVars>>

\* WorkflowManager.delete_workflow(name)
DeleteWorkflow(name) ==
    /\ IF name \notin workflows
       THEN /\ reply' = Reply("delete_workflow", name, "False")
            /\ UNCHANGED <<workflows, active_workflow>>
       ELSE /\ active_workflow' = IF active_workflow = name THEN None
                                  ELSE active_workflow
            /\ workflows' = workflows \ {name}
            /\ reply' = Reply("delete_workflow", name, "True")
    /\ UNCHANGED <<busVars, roleVars, wf_tasks, description, dependencies,
                   max_retries, timeout, status, result, wf_status, wf_result,
                   runs, agent_calls, callbacks, events, initialized, actVars>>

\* WorkflowManager.execute_workflow(name) called from outside: it raises for
\* a name that is not registered, runs to its end without a suspension for a
\* workflow without tasks, and starts the execution of "w"
ExecuteWorkflowNamed(name) ==
    IF name \notin workflows
    THEN /\ reply' = Reply("execute_workflow", name, "ValueError")
         /\ UNCHANGED <<busVars, wfVars, roleVars, workflows, initialized, actVars>>
    ELSE IF name # "w"
    THEN /\ active_workflow' = name
         /\ reply' = Reply("execute_workflow", name, "{}")
         /\ UNCHANGED <<busVars, roleVars, wf_tasks, description, dependencies,
                        max_retries, timeout, status, result, wf_status,
                        wf_result, runs, agent_calls, callbacks, events,
                        workflows, initialized, actVars>>
    ELSE /\ ExecuteWorkflow(1, <<>>)
         /\ UNCHANGED <<roleVars, mgrVars, actVars>>

\* the workflow "w" of one task, registered, and no other workflow
RegistryInit ==
    /\ BusInit
    /\ WfIdle
    /\ MgrIdle
    /\ ActionIdle
    /\ RoleIdle
    /\ runs = [r \in ResumeIds |-> NoRun]
    /\ wf_tasks = <<"T3">>
    /\ description = [t \in Tasks |-> t]
    /\ dependencies = NoDeps
    /\ max_retries = [t \in Tasks |-> 0]
    /\ timeout = [t \in Tasks |-> FALSE]
    /\ callbacks = NoCallbacks

RegistryNext ==
    \/ \E name \in Names : CreateWorkflow(name)
    \/ \E name \in Names : SetActiveWorkflow(name)
    \/ \E name \in Names : DeleteWorkflow(name)
    \/ \E name \in Names : ExecuteWorkflowNamed(name)
    \/ \E name \in Names :
          (HasStatus(name, "running") => LastTaskInFlight) /\ PauseWorkflow(name)
    \/ \E name \in Names : ResumeWorkflow(name)
    \/ \E r \in ResumeIds : ResumeExecution(r)
    \/ \E r \in ResumeIds : TaskCall(r) /\ UNCHANGED <<roleVars, mgrVars, actVars>>
    \/ \E r \in ResumeIds : TaskDeps(r) /\ UNCHANGED <<roleVars, mgrVars, actVars>>
    \/ \E r \in ResumeIds, outcome \in {"ok", "raise"} : AgentFinish(r, outcome) /\ UNCHANGED <<roleVars, mgrVars, actVars>>
    \/ \E r \in ResumeIds : TaskReturn(r) /\ UNCHANGED <<roleVars, mgrVars, actVars>>
    \/ \E r \in ResumeIds : Advance(r) /\ UNCHANGED <<roleVars, mgrVars, actVars>>
    \/ \E r \in ResumeIds : ExecuteFailed(r) /\ UNCHANGED <<roleVars, mgrVars, actVars>>
    \/ RunStart /\ UNCHANGED restVars
    \/ RunGet /\ UNCHANGED restVars
    \/ PutResume /\ UNCHANGED restVars

\* the manager's registry operations called at any moment, with both names,
\* while "w" is executed, paused and resumed; the agent returns an output or
\* raises, and the call that pauses the running workflow is made while the
\* outside execution awaits the agent
RegistrySpec == RegistryInit /\ [][RegistryNext]_vars

\* --------------------------------------------- dependencies set by description
\* a description that no task has
Ghost == "ghost"

\* the task descriptions and the dependency lists set_task_dependencies is
\* called with
TaskDescChoices == {"Y", "Z", Ghost}
DepDescChoices == { <<"X">>, <<Ghost>>, <<"X", Ghost>>, <<Ghost, "Y", "X">> }

\* Workflow.get_task_by_description(description): the first task of the list
\* with that description, or None
GetTaskByDescription(desc) ==
    LET found == {i \in 1..Len(wf_tasks) : description[wf_tasks[i]] = desc}
    IN IF found = {} THEN None
       ELSE wf_tasks[CHOOSE i \in found : \A j \in found : i <= j]

RECURSIVE KnownTasks(_)
\* the tasks found for the descriptions of a list, in the order of the list;
\* a description that is not found is logged and skipped
KnownTasks(descs) ==
    IF descs = <<>> THEN <<>>
    ELSE LET dep_task == GetTaskByDescription(Head(descs))
         IN (IF dep_task # None THEN <<dep_task>> ELSE <<>>) \o KnownTasks(Tail(descs))

\* mutant: a list with an unknown description is refused as a whole
SetDependenciesAllOrNothing(task, descs) ==
    dependencies' = IF Len(KnownTasks(descs)) = Len(descs)
                    THEN [dependencies EXCEPT ![task] = @ \o KnownTasks(descs)]
                    ELSE dependencies

\* Workflow.set_dependencies(task, dependencies)
SetDependencies(task, descs) ==
    dependencies' = [dependencies EXCEPT ![task] = @ \o KnownTasks(descs)]

\* WorkflowManager.set_task_dependencies(workflow_name, task_desc,
\* dependencies), called while the workflow is built: before it is executed,
\* and for a task that has no dependencies yet
SetTaskDependencies(name, task_desc, descs) ==
    /\ wf_status = "pending"
    /\ LET task == IF name = "w" /\ name \in workflows
                   THEN GetTaskByDescription(task_desc) ELSE None
       IN IF task = None
          THEN /\ reply' = [Reply("set_task_dependencies", name, "False")
                               EXCEPT !.args = <<task_desc>> \o descs]
               /\ UNCHANGED dependencies
          ELSE /\ dependencies[task] = <<>>
               /\ SetDependencies(task, descs)
               /\ reply' = [Reply("set_task_dependencies", name, "True")
                               EXCEPT !.args = <<task_desc>> \o descs]
    /\ UNCHANGED <<busVars, roleVars, wf_tasks, description, max_retries,
                   timeout, status, result, wf_status, wf_result,
                   active_workflow, runs, agent_calls, callbacks, events,
                   workflows, initialized, actVars>>

\* the workflow "w" with three tasks of different descriptions, added in the
\* order Z, Y, X, and no dependencies
DepsInit ==
    /\ BusInit
    /\ WfIdle
    /\ MgrIdle
    /\ ActionIdle
    /\ RoleIdle
    /\ runs = [r \in RunIds |-> NoRun]
    /\ wf_tasks = <<"T3", "T2", "T1">>
    /\ description = [t \in Tasks |-> IF t = "T1" THEN "X" ELSE IF t = "T2" THEN "Y" ELSE "Z"]
    /\ dependencies = NoDeps
    /\ max_retries = [t \in Tasks |-> 0]
    /\ timeout = [t \in Tasks |-> FALSE]
    /\ callbacks = NoCallbacks

DepsNext ==
    \/ \E name \in Names, task_desc \in TaskDescChoices, descs \in DepDescChoices :
          SetTaskDependencies(name, task_desc, descs)
    \/ \E r \in RunIds, context \in ContextChoices : ExecuteWorkflow(r, context) /\ UNCHANGED <<roleVars, mgrVars, actVars>>
    \/ \E r \in RunIds : TaskCall(r) /\ UNCHANGED <<roleVars, mgrVars, actVars>>
    \/ \E r \in RunIds : TaskDeps(r) /\ UNCHANGED <<roleVars, mgrVars, actVars>>
    \/ \E r \in RunIds : AgentFinish(r, "ok") /\ UNCHANGED <<roleVars, mgrVars, actVars>>
    \/ \E r \in RunIds : TaskReturn(r) /\ UNCHANGED <<roleVars, mgrVars, actVars>>
    \/ \E r \in RunIds : Advance(r) /\ UNCHANGED <<roleVars, mgrVars, actVars>>
    \/ RunStart /\ UNCHANGED restVars
    \/ RunGet /\ UNCHANGED restVars
    \/ PutResume /\ UNCHANGED restVars

\* dependencies are set by description, with lists that name tasks that do
\* not exist, and the workflow is then executed by agents that succeed
DepsSpec == DepsInit /\ [][DepsNext]_vars

\* ------------------------------------------------- adding tasks to a workflow
\* WorkflowManager.add_task_to_workflow(workflow_name, task), called while
\* the workflow is built, for a task that is not in the workflow yet:
\* Workflow.add_task appends the task whatever its description
AddTaskToWorkflow(name, task) ==
    /\ wf_status = "pending"
    /\ task \notin Range(wf_tasks)
    /\ IF name = "w" /\ name \in workflows
       THEN /\ wf_tasks' = Append(wf_tasks, task)
            /\ reply' = [Reply("add_task_to_workflow", name, "True")
                            EXCEPT !.args = <<description[task]>>]
       ELSE /\ reply' = [Reply("add_task_to_workflow", name, "False")
                            EXCEPT !.args = <<description[task]>>]
            /\ UNCHANGED wf_tasks
    /\ UNCHANGED <<busVars, roleVars, description, dependencies, max_retries,
                   timeout, status, result, wf_status, wf_result,
                   active_workflow, runs, agent_calls, callbacks, events,
                   workflows, initialized, actVars>>

\* the workflow "w" created and empty, and three tasks created with
\* descriptions that are distinct or not
AddInit ==
    /\ BusInit
    /\ WfIdle
    /\ MgrIdle
    /\ ActionIdle
    /\ RoleIdle
    /\ runs = [r \in RunIds |-> NoRun]
    /\ wf_tasks = <<>>
    /\ description \in DescriptionChoices
    /\ dependencies = NoDeps
    /\ max_retries = [t \in Tasks |-> 0]
    /\ timeout = [t \in Tasks |-> FALSE]
    /\ callbacks = NoCallbacks

AddNext ==
    \/ \E name \in Names, task \in Tasks : AddTaskToWorkflow(name, task)
    \/ \E name \in Names, task_desc \in {"X", "Z", Ghost}, descs \in {<<"X">>, <<"Z", "X">>} :
          SetTaskDependencies(name, task_desc, descs)

\* a workflow is built: tasks are added and dependencies set by description
AddSpec == AddInit /\ [][AddNext]_vars

\* ------------------------------------------------ Task.execute called directly
CallIds == 1..MaxCalls
\* the dependency lists of the tasks executed directly: a shared dependency
\* listed twice, two independent dependencies
TaskDependencyChoices ==
    { [NoDeps EXCEPT !["T2"] = <<"T1">>, !["T3"] = <<"T1", "T2", "T1">>],
      [NoDeps EXCEPT !["T3"] = <<"T1", "T2">>] }

\* task.execute() is called (by a test, or as a task awaits a dependency):
\* the call r starts
ExecuteTask(r, task) ==
    /\ runs[r].pc = "idle"
    /\ \A q \in DOMAIN runs \ {r} : runs[q].pc \in {"idle", "returned", "raised"}
    /\ IF r = 1 THEN TRUE ELSE runs[r - 1].pc # "idle"
    /\ SetRun(r, [NoRun EXCEPT !.pc = "deps", !.root = task,
                               !.stack = <<Frame(task)>>, !.status0 = status])
    /\ UNCHANGED <<busVars, wf_tasks, description, dependencies, max_retries,
                   timeout, status, result, wf_status, wf_result,
                   active_workflow, agent_calls, callbacks, events>>

\* tasks that belong to no workflow, on a bus without subscribers; T1 is
\* created with two retries and the others with none, T3 without a timeout.
\* The success callback of T1 raises where T1 is a dependency of T3 only, and
\* returns where T1 is a dependency shared by T2 and T3.
TaskInit ==
    /\ BusInit
    /\ WfIdle
    /\ MgrIdle
    /\ ActionIdle
    /\ RoleIdle
    /\ runs = [r \in CallIds |-> NoRun]
    /\ wf_tasks = <<>>
    /\ description = [t \in Tasks |-> t]
    /\ dependencies \in TaskDependencyChoices
    /\ max_retries = [t \in Tasks |-> IF t = "T1" THEN 2 ELSE 0]
    /\ timeout = [t \in Tasks |-> t # "T3"]
    /\ callbacks \in CallbackChoices
    /\ (callbacks["T1"].on_success = "raises") = (dependencies["T2"] = <<>>)

TaskNext ==
    \/ \E r \in CallIds, task \in Tasks : ExecuteTask(r, task) /\ UNCHANGED <<roleVars, mgrVars, actVars>>
    \/ \E r \in CallIds : TaskDeps(r) /\ UNCHANGED <<roleVars, mgrVars, actVars>>
    \/ \E r \in CallIds, outcome \in Outcomes : AgentFinish(r, outcome) /\ UNCHANGED <<roleVars, mgrVars, actVars>>
    \/ \E r \in CallIds : TaskRetry(r) /\ UNCHANGED <<roleVars, mgrVars, actVars>>
    \/ \E r \in CallIds : TaskReturn(r) /\ UNCHANGED <<roleVars, mgrVars, actVars>>
    \/ \E r \in CallIds : TaskCallbackRaises(r) /\ UNCHANGED <<roleVars, mgrVars, actVars>>
    \/ RunStart /\ UNCHANGED restVars
    \/ RunGet /\ UNCHANGED restVars
    \/ PutResume /\ UNCHANGED restVars

TaskSpec == TaskInit /\ [][TaskNext]_vars

\* --------------------------------------------- the attempts of Task.execute
\* the tasks of TaskInit, each call of Task.execute being made after the
\* call before it has ended
AttemptInit ==
    /\ BusInit
    /\ WfIdle
    /\ MgrIdle
    /\ ActionIdle
    /\ RoleIdle
    /\ runs = [r \in RunIds |-> NoRun]
    /\ wf_tasks = <<>>
    /\ description = [t \in Tasks |-> t]
    /\ dependencies \in TaskDependencyChoices
    /\ max_retries = [t \in Tasks |-> IF t = "T1" THEN 2 ELSE 0]
    /\ timeout = [t \in Tasks |-> t # "T3"]
    /\ callbacks \in CallbackChoices
    /\ (callbacks["T1"].on_success = "raises") = (dependencies["T2"] = <<>>)

AttemptNext ==
    \/ \E r \in RunIds, task \in Tasks : ExecuteTask(r, task) /\ UNCHANGED <<roleVars, mgrVars, actVars>>
    \/ \E r \in RunIds : TaskDeps(r) /\ UNCHANGED <<roleVars, mgrVars, actVars>>
    \/ \E r \in RunIds, outcome \in Outcomes : AgentFinish(r, outcome) /\ UNCHANGED <<roleVars, mgrVars, actVars>>
    \/ \E r \in RunIds : TaskRetry(r) /\ UNCHANGED <<roleVars, mgrVars, actVars>>
    \/ \E r \in RunIds : TaskReturn(r) /\ UNCHANGED <<roleVars, mgrVars, actVars>>
    \/ \E r \in RunIds : TaskCallbackRaises(r) /\ UNCHANGED <<roleVars, mgrVars, actVars>>
    \/ RunStart /\ UNCHANGED restVars
    \/ RunGet /\ UNCHANGED restVars
    \/ PutResume /\ UNCHANGED restVars

AttemptSpec == AttemptInit /\ [][AttemptNext]_vars

\* ------------------------------------------------------- the agent's cycles
\* an agent, attached to the bus or not, whose action list is assigned by
\* set_actions and that is invoked by run and by handle_message; the bus
\* has no subscribers
RoleInit ==
    /\ BusInit
    /\ WfIdle
    /\ MgrIdle
    /\ ActionIdle
    /\ runs = [r \in RunIds |-> NoRun]
    /\ wf_tasks = <<>>
    /\ description = [t \in Tasks |-> t]
    /\ dependencies = NoDeps
    /\ max_retries = [t \in Tasks |-> 0]
    /\ timeout = [t \in Tasks |-> FALSE]
    /\ callbacks = NoCallbacks
    /\ rc = NoContext
    /\ react_mode \in RoleReactMode
    /\ environment \in BOOLEAN
    /\ plan = NoPlan
    /\ cycles = [c \in CycleIds |-> NoCycle]
    /\ set_actions_calls = 0

RoleNext ==
    \/ \E actions \in ActionListChoices : SetActions(actions) /\ UNCHANGED <<mgrVars, actVars>>
    \/ \E c \in CycleIds, kind \in {"run", "handle_message"} : CycleStart(c, kind) /\ UNCHANGED <<mgrVars, actVars>>
    \/ \E c \in CycleIds, outcome \in {"ok", "raise"} : ActionFinish(c, outcome) /\ UNCHANGED <<mgrVars, actVars>>
    \/ \E c \in CycleIds : CycleReturn(c) /\ UNCHANGED <<mgrVars, actVars>>
    \/ RunStart /\ UNCHANGED restVars
    \/ RunGet /\ UNCHANGED restVars
    \/ PutResume /\ UNCHANGED restVars

RoleSpec == RoleInit /\ [][RoleNext]_vars

\* ------------------------------------------------- subscribing more than once
\* the (topic, callback) pairs of a bus on which the callback a is subscribed
\* under a cause and under the wildcard
SubscribeTwiceInputs == {<<"t1", "a">>, <<"*", "a">>, <<"*", "b">>}

SubscribeNext ==
    \/ \E in \in SubscribeTwiceInputs : Subscribe(in[1], in[2]) /\ UNCHANGED restVars
    \/ \E cause \in Causes : PublishCall(cause) /\ UNCHANGED restVars
    \/ PutResume /\ UNCHANGED restVars
    \/ RunStart /\ UNCHANGED restVars
    \/ RunGet /\ UNCHANGED restVars
    \/ GatherReturn /\ UNCHANGED restVars
    \/ CallbacksStart /\ UNCHANGED restVars
    \/ \E i \in DOMAIN calls : CallbackReturn(i) /\ UNCHANGED restVars

\* a bus whose callbacks are subscribed, some of them again and again, while
\* messages are published and dispatched
SubscribeSpec == Init /\ [][SubscribeNext]_vars

\* ------------------------------------------------ constructing the bus again
\* the components that call Environment(): a test and the workflow manager
Constructors == {"test", "workflow_manager"}

\* mutant: __init__ does not look at _initialized
EnvironmentInitAgain ==
    /\ subscriptions' = <<>>
    /\ message_queue' = <<>>
    /\ message_history' = <<>>
    /\ initialized' = TRUE

\* Environment.__init__ on the instance __new__ returned
EnvironmentInit ==
    IF initialized
    THEN UNCHANGED <<subscriptions, message_queue, message_history, initialized>>
    ELSE /\ subscriptions' = <<>>
         /\ message_queue' = <<>>
         /\ message_history' = <<>>
         /\ initialized' = TRUE

\* Environment(): __new__ creates the instance when the class has none and
\* returns the one it has otherwise, then __init__ runs on it
ConstructEnvironment(who) ==
    /\ reply' = Reply("Environment", who, IF initialized THEN "existing" ELSE "created")
    /\ EnvironmentInit
    /\ UNCHANGED <<putters, woken, unfinished_tasks, loop_pc, round, gather_exc,
                   calls, published, dequeued>>
    /\ UNCHANGED <<wfVars, roleVars, workflows, actVars>>

\* the process before anything constructed a bus
ConstructInit ==
    /\ BusInit
    /\ WfIdle
    /\ RoleIdle
    /\ workflows = {}
    /\ reply = Reply(None, None, None)
    /\ initialized = FALSE
    /\ ActionIdle
    /\ runs = [r \in RunIds |-> NoRun]
    /\ wf_tasks = <<>>
    /\ description = [t \in Tasks |-> t]
    /\ dependencies = NoDeps
    /\ max_retries = [t \in Tasks |-> 0]
    /\ timeout = [t \in Tasks |-> FALSE]
    /\ callbacks = NoCallbacks

ConstructNext ==
    \/ \E who \in Constructors : ConstructEnvironment(who)
    \/ initialized /\ BusStep

ConstructSpec == ConstructInit /\ [][ConstructNext]_vars

\* ------------------------------------------- run_with_retry is called
\* an action created with max_retries from 0 up
RetryInit ==
    /\ BusInit
    /\ WfIdle
    /\ MgrIdle
    /\ RoleIdle
    /\ runs = [r \in RunIds |-> NoRun]
    /\ wf_tasks = <<>>
    /\ description = [t \in Tasks |-> t]
    /\ dependencies = NoDeps
    /\ max_retries = [t \in Tasks |-> 0]
    /\ timeout = [t \in Tasks |-> FALSE]
    /\ callbacks = NoCallbacks
    /\ \E m \in 0..MaxActionRetries :
          retry_call = [NoRetryCall EXCEPT !.max_retries = m]

RetryNext ==
    \/ RunWithRetryCall
    \/ \E out \in RunOutputs : RunReturns(out)
    \/ \E e \in RunErrors : RunRaises(e)
    \/ SleepReturns

RetrySpec == RetryInit /\ [][RetryNext]_vars

\* every invocation a round of Environment.run can create
Invocations == (1..MaxMsgs) \X Callbacks

\* The bus with its dispatch loop running and never cancelled. The event loop
\* runs every ready task, and callbacks are taken to finish once they run.
LiveSpec ==
    /\ Init
    /\ [][BusStep]_vars
    /\ WF_vars(RunStart /\ UNCHANGED restVars)
    /\ WF_vars(RunGet /\ UNCHANGED restVars)
    /\ WF_vars(GatherReturn /\ UNCHANGED restVars)
    /\ WF_vars(PutResume /\ UNCHANGED restVars)
    /\ WF_vars(CallbacksStart /\ UNCHANGED restVars)
    /\ \A i \in Invocations :
          WF_vars((CallbackReturn(i) \/ CallbackRaise(i)) /\ UNCHANGED restVars)

\* ------------------------------------- a workflow on a bus with a subscriber
\* the rounds of the dispatch loop in which a callback can be invoked: one
\* for each message of the manager, of the agents and of the callbacks
WfInvocations == (1..(MaxMsgs + 3 * Cardinality(Tasks))) \X Callbacks

\* a workflow of one or two independent tasks created without callbacks; the
\* bus has no subscriber, or a handle_message subscribed under "*" (add_role)
WfLiveInit ==
    /\ subscriptions \in { <<>>, [t \in {"*"} |-> {"b"}] }
    /\ message_queue = <<>>
    /\ putters = <<>>
    /\ woken = <<>>
    /\ unfinished_tasks = 0
    /\ message_history = <<>>
    /\ loop_pc = "init"
    /\ round = 0
    /\ gather_exc = FALSE
    /\ calls = <<>>
    /\ published = <<>>
    /\ dequeued = <<>>
    /\ WfIdle
    /\ MgrIdle
    /\ ActionIdle
    /\ RoleIdle
    /\ runs = [r \in RunIds |-> NoRun]
    /\ callbacks = NoCallbacks
    /\ wf_tasks \in { <<"T1">>, <<"T2", "T1">> }
    /\ description = [t \in Tasks |-> t]
    /\ dependencies = NoDeps
    /\ \E m \in RetryChoices :
          /\ max_retries = [t \in Tasks |-> m]
          /\ timeout = [t \in Tasks |-> m = 0]

WfLiveNext ==
    \/ WfNext
    \/ GatherReturn /\ UNCHANGED restVars
    \/ CallbacksStart /\ UNCHANGED restVars
    \/ \E i \in DOMAIN calls : CallbackReturn(i) /\ UNCHANGED restVars
    \/ \E i \in DOMAIN calls : CallbackPublish(i) /\ UNCHANGED restVars

\* The workflow is executed with the dispatch loop running and never
\* cancelled. The event loop runs every ready task; the cycles of the agents
\* end, in one way or another, and a callback that runs either returns or
\* publishes a message and returns when its publish has returned.
WfLiveSpec ==
    /\ WfLiveInit
    /\ [][WfLiveNext]_vars
    /\ WF_vars(RunStart /\ UNCHANGED restVars)
    /\ WF_vars(RunGet /\ UNCHANGED restVars)
    /\ WF_vars(GatherReturn /\ UNCHANGED restVars)
    /\ WF_vars(PutResume /\ UNCHANGED restVars)
    /\ WF_vars(CallbacksStart /\ UNCHANGED restVars)
    /\ \A i \in WfInvocations :
          WF_vars((CallbackReturn(i) \/ CallbackPublish(i)) /\ UNCHANGED restVars)
    /\ \A r \in RunIds :
          /\ WF_vars(TaskCall(r) /\ UNCHANGED <<roleVars, mgrVars, actVars>>)
          /\ WF_vars(TaskDeps(r) /\ UNCHANGED <<roleVars, mgrVars, actVars>>)
          /\ WF_vars((\E outcome \in Outcomes : AgentFinish(r, outcome))
                        /\ UNCHANGED <<roleVars, mgrVars, actVars>>)
          /\ WF_vars(TaskRetry(r) /\ UNCHANGED <<roleVars, mgrVars, actVars>>)
          /\ WF_vars(TaskReturn(r) /\ UNCHANGED <<roleVars, mgrVars, actVars>>)
          /\ WF_vars(Advance(r) /\ UNCHANGED <<roleVars, mgrVars, actVars>>)
          /\ WF_vars(ExecuteFailed(r) /\ UNCHANGED <<roleVars, mgrVars, actVars>>)

\* ----------------------------------------------------------- the claims
PendingIds == {w.msg.id : w \in Range(putters) \cup Range(woken)}
DequeuedIds == {m.id : m \in Range(dequeued)}
QueuedIds == {m.id : m \in Range(message_queue)}

\* C1: a callback of a later dispatch round is never started while a
\* callback invoked for an earlier dequeued message has not finished.
C1_NoCrossMessageOverlap ==
    \A i \in DOMAIN calls, j \in DOMAIN calls :
        i[1] < j[1] => calls[j] = "ready"

\* C2: the messages are dequeued in the order of their publish calls, none
\* twice and none lost, and the queue never holds more than its capacity.
C2_FifoInPublishOrder ==
    /\ Len(message_queue) <= QueueMaxSize
    /\ dequeued = SubSeq(published, 1, Len(dequeued))
    /\ loop_pc # "cancelled" =>
          \A n \in 1..Len(published) :
              Cardinality({k \in 1..Len(dequeued) : dequeued[k].id = n})
               + Cardinality({k \in 1..Len(message_queue) : message_queue[k].id = n})
               + Cardinality({k \in 1..Len(putters) : putters[k].msg.id = n})
               + Cardinality({k \in 1..Len(woken) : woken[k].msg.id = n}) = 1

\* C3: with the dispatch loop running, every published message is
\* eventually dispatched and its publish call eventually returns.
C3_EveryPublishCompletes ==
    \A n \in 1..MaxMsgs :
        (Len(published) >= n) ~> (n \in DequeuedIds /\ n \notin PendingIds)

\* C4: the callbacks invoked for a dequeued message are exactly those
\* subscribed, at that moment, under the message's cause or under "*".
C4_InvokedIsUnion ==
    [][round' = round + 1 =>
         {c \in Callbacks : <<round', c>> \in DOMAIN calls'} =
         {c \in Callbacks : \E t \in DOMAIN subscriptions :
              /\ c \in subscriptions[t]
              /\ (t = "*" \/ t = Head(message_queue).cause_by)}]_vars

\* C4 witness: a message with cause t1 was dispatched to the callback
\* subscribed to t1 and to the callback subscribed to "*".
C4_Witness ==
    /\ round > 0 /\ dequeued[round].cause_by = "t1"
    /\ {<<round, "a">>, <<round, "b">>} \subseteq DOMAIN calls

\* C5: the history is the window of the min(n, cap) messages published
\* last, oldest first, get_history() returns it whole, and a message is in
\* it from the publish call on.
C5_HistoryWindow ==
    LET n == Len(published)
        k == IF n < HistoryMax THEN n ELSE HistoryMax
    IN /\ Len(message_history) <= HistoryMax
       /\ message_history = SubSeq(published, n - k + 1, n)
       /\ GetHistory(-1, None) = SubSeq(published, n - k + 1, n)

\* C5 witness: more messages than the cap were published, and the newest is
\* in the history while its publisher is still suspended on the full queue.
C5_Witness ==
    /\ Len(published) > HistoryMax
    /\ \E k \in 1..Len(putters) :
          /\ putters[k].msg.id = Len(published)
          /\ putters[k].msg \in Range(message_history)

\* C6: a callback that raises ends neither the loop nor the other
\* callbacks of its round: the loop leaves the gather for the next
\* Queue.get with every other invocation left as it was, and it ends only
\* by cancellation.
C6_RaiseIsIsolated ==
    /\ [](loop_pc # "crashed")
    /\ [][(loop_pc = "gather" /\ gather_exc /\ loop_pc' # "gather") =>
             (loop_pc' \in {"get", "cancelled"} /\ calls' = calls)]_vars
    /\ [][\A i \in DOMAIN calls :
             (i \notin DOMAIN calls' /\ gather_exc' /\ ~gather_exc) =>
                 \A j \in DOMAIN calls \ {i} :
                     j \in DOMAIN calls' /\ calls'[j] = calls[j]]_vars

\* C6 witness: the loop has gone back to Queue.get after a raise while
\* another callback of that round is still running.
C6_Witness ==
    /\ loop_pc = "get"
    /\ \E i \in DOMAIN calls : i[1] = round /\ calls[i] = "running"

\* the execute_workflow call made last
LatestRun(r) ==
    /\ runs[r].pc # "idle"
    /\ \A q \in DOMAIN runs : q > r => runs[q].pc = "idle"

\* the tasks whose agent was invoked by the call r, in invocation order
RunCalls(r) == SelectSeq(agent_calls, LAMBDA c : c.run = r)

\* the position of a task in the execution order of the call r
Pos(r, task) == CHOOSE i \in 1..Len(runs[r].order) : runs[r].order[i] = task

\* C7: execute_workflow runs the tasks one at a time, in an order in which
\* every task comes after all of its dependencies, and when a task's execute
\* is called the shared context holds, under the description of every task
\* executed before it, the output of that task.
C7_OrderedWithContext ==
    \A r \in RunIds :
        LET run == runs[r] IN
        run.pc \notin {"idle", "returned", "raised"} =>
            /\ \A i \in 1..Len(run.order) :
                   \A d \in Range(dependencies[run.order[i]]) :
                       \E j \in 1..(i - 1) : run.order[j] = d
            /\ Cardinality({t \in Tasks : status[t] = "running"}) <= 1
            /\ \A i \in 1..Len(RunCalls(r)) :
                   /\ Pos(r, RunCalls(r)[i].task) <= run.k
                   /\ \A j \in 1..(i - 1) :
                          Pos(r, RunCalls(r)[j].task) <= Pos(r, RunCalls(r)[i].task)
            /\ run.pc = "call" =>
                   \A h \in 1..(run.k - 1) :
                       /\ description[run.order[h]] \in DOMAIN run.ctx
                       /\ run.ctx[description[run.order[h]]] = result[run.order[h]]

\* the tasks of the dependency graph of the workflow: its tasks and the
\* tasks they depend on, directly or not
RECURSIVE Closure(_)
Closure(S) ==
    LET next == S \cup UNION {Range(dependencies[t]) : t \in S}
    IN IF next = S THEN S ELSE Closure(next)
GraphTasks == Closure(Range(wf_tasks))
\* the graph has a task that depends on itself, directly or not
HasCycle ==
    \E t \in GraphTasks : t \in Closure(Range(dependencies[t]))

\* C8: with a cycle in the dependency graph every execute_workflow call
\* fails with the cycle error, the workflow is failed, no agent was invoked,
\* no task changed its status and no message was published.
C8_CycleFailsBeforeAnyTask ==
    HasCycle =>
        \A r \in RunIds :
            runs[r].pc # "idle" =>
                /\ runs[r].pc = "raised"
                /\ runs[r].err[1] = "cycle"
                /\ wf_status = "failed"
                /\ agent_calls = <<>>
                /\ published = <<>>
                /\ status = [t \in Tasks |-> "pending"]
                /\ wf_result = [set |-> FALSE, map |-> <<>>]

\* C8 witness: every execute_workflow call made on a workflow with a
\* dependency cycle has failed.
C8_Witness ==
    /\ HasCycle
    /\ \A r \in RunIds : runs[r].pc = "raised"

\* C9: when the execute of a task has raised, the ERROR message tagged with
\* the description of that task is published; once the call has re-raised,
\* the workflow is failed, no later task of the order was executed or
\* changed its status, and the stored result is what it was before the call.
C9_FailureAborts ==
    \A r \in RunIds :
        LET run == runs[r] IN
        (LatestRun(r) /\ run.err[1] \in {"error", "timeout"}) =>
            /\ run.pc \in {"failing", "raised"}
            /\ published # <<>>
            /\ published[Len(published)].type = "error"
            /\ published[Len(published)].cause_by = description[run.order[run.k]]
            /\ run.err[2] = run.order[run.k]
            /\ status[run.order[run.k]] = "failed"
            /\ \A h \in (run.k + 1)..Len(run.order) :
                   /\ status[run.order[h]] = run.status0[run.order[h]]
                   /\ \A i \in 1..Len(RunCalls(r)) :
                          RunCalls(r)[i].task # run.order[h]
            /\ wf_result = run.result0
            /\ run.pc = "raised" => wf_status = "failed"

\* C9 witness: the last call has re-raised the failure of a task that is
\* neither the first nor the last of its order, with the result of an
\* earlier task collected.
C9_Witness ==
    \E r \in RunIds :
        /\ LatestRun(r)
        /\ runs[r].pc = "raised"
        /\ runs[r].err[1] \in {"error", "timeout"}
        /\ 1 < runs[r].k /\ runs[r].k < Len(runs[r].order)
        /\ DOMAIN runs[r].results # {}

\* C10: when every task of the order has executed successfully the workflow
\* is completed and the result stored and returned has exactly one entry
\* for every executed task, the output of the task under its description.
C10_ResultPerTask ==
    \A r \in RunIds :
        LET run == runs[r] IN
        (LatestRun(r) /\ run.pc = "returned") =>
            /\ wf_status = "completed"
            /\ wf_result = [set |-> TRUE, map |-> run.results]
            /\ Cardinality(DOMAIN run.results) = Len(run.order)
            /\ \A i \in 1..Len(run.order) :
                   /\ description[run.order[i]] \in DOMAIN run.results
                   /\ run.results[description[run.order[i]]] = result[run.order[i]]

\* the call r has returned or raised
Finished(r) == runs[r].pc \in {"returned", "raised"}

\* the outcomes of the agent invocations the call r made for a task, in order
AttemptsOf(r, task) ==
    SelectSeq(events, LAMBDA e : e.run = r /\ e.task = task /\ e.ev \in Outcomes)

\* how many times the call r did ev for a task
CountOf(r, task, ev) ==
    Len(SelectSeq(events, LAMBDA e : e.run = r /\ e.task = task /\ e.ev = ev))

\* C11: a task whose agent fails k <= max_retries times with a non-timeout
\* error and then succeeds ends completed with the output of the successful
\* attempt as its result and return value, has invoked its success callback
\* and has slept exactly k retry delays.
C11_RetryThenSucceed ==
    \A r \in DOMAIN runs, t \in Tasks :
        LET a == AttemptsOf(r, t) IN
        (LatestRun(r) /\ Finished(r)) =>
            \A k \in 0..max_retries[t] :
                (/\ Len(a) > k
                 /\ \A i \in 1..k : a[i].ev = "raise"
                 /\ a[k + 1].ev = "ok") =>
                    /\ status[t] = "completed"
                    /\ result[t] = Output("executed", a[k + 1].n)
                    /\ CountOf(r, t, "sleep") = k
                    /\ callbacks[t].on_success # "none" =>
                           CountOf(r, t, "on_success") >= 1
                    /\ t = runs[r].root =>
                           /\ runs[r].pc = "returned"
                           /\ runs[r].out = result[t]

C14_DependenciesFirst ==
    \A r \in DOMAIN runs :
        LET stack == runs[r].stack IN
        /\ runs[r].pc \in {"agent", "sleep", "agent_ret"} =>
               \A d \in Range(dependencies[stack[Len(stack)].task]) :
                   status[d] = "completed"
        /\ \A i \in 1..(Len(stack) - 1) :
               LET deps == dependencies[stack[i].task] IN
               /\ stack[i].di >= 2
               /\ stack[i + 1].task = deps[stack[i].di - 1]
               /\ \A j \in 1..(stack[i].di - 2) : status[deps[j]] = "completed"
               /\ status[stack[i].task] # "running"
        /\ Cardinality({t \in Tasks : status[t] = "running"}) <= 1

\* C14 witness: the agent of a task is invoked after the call has executed
\* two dependencies of it.
C14_Witness ==
    \E r \in DOMAIN runs :
        /\ runs[r].pc = "agent"
        /\ Len(runs[r].stack) = 1
        /\ Cardinality({e.task : e \in {x \in Range(events) : x.run = r}}) = 3

\* C15: the status of a task changes only from pending to running and from
\* running to completed or failed.
C15_StatusLifecycle ==
    [][\A t \in Tasks :
           status'[t] # status[t] =>
               <<status[t], status'[t]>> \in
                   {<<"pending", "running">>, <<"running", "completed">>,
                    <<"running", "failed">>}]_vars

\* the cycles started after the same number of set_actions calls as cycle c
SameList(c) ==
    {d \in CycleIds : cycles[d].pc # "idle" /\ cycles[d].gen = cycles[c].gen}

\* the position of cycle c among the cycles on its action list
InvocationIndex(c) == Cardinality({d \in SameList(c) : d <= c})

\* the cycles on the action list of cycle c were made one after the other
InARow(c) == \A d \in SameList(c) : cycles[d].alone

\* C16: under the sequential-by-order policy, the i-th of the invocations
\* made in a row on a list of N actions selects and executes action i when
\* i <= N, and selects and executes no action when i = N + 1.
C16_SequentialCursor ==
    react_mode = "by_order" =>
        \A c \in CycleIds :
            (cycles[c].pc # "idle" /\ InARow(c)) =>
                LET i == InvocationIndex(c)
                    N == Len(cycles[c].actions)
                IN /\ i <= N =>
                        /\ cycles[c].selected = cycles[c].actions[i]
                        /\ cycles[c].ran = cycles[c].actions[i]
                   /\ i = N + 1 =>
                        /\ cycles[c].selected = None
                        /\ cycles[c].ran = None

\* C17: the cursor stays within -1 .. len(actions) - 1; a step that is not a
\* set_actions call leaves it or raises it by one, a reactor cycle raises it
\* by one at most, and a set_actions call leaves it at -1.
C17_CursorBounds ==
    /\ [](/\ -1 <= rc.state
          /\ rc.state <= Len(rc.actions) - 1
          /\ \A c \in CycleIds :
                cycles[c].state1 \in {cycles[c].state0, cycles[c].state0 + 1})
    /\ [][IF set_actions_calls' # set_actions_calls
          THEN rc'.state = -1
          ELSE rc'.state \in {rc.state, rc.state + 1}]_vars

\* the cursor reached the second action of a list, a new list was assigned,
\* and a cycle moved the cursor to the first action of the new list
C17_Witness ==
    /\ set_actions_calls = 2
    /\ rc.state = 0
    /\ \E c, d \in CycleIds :
          /\ cycles[c].gen = 1 /\ cycles[c].state1 = 1
          /\ cycles[d].gen = 2 /\ cycles[d].state0 = -1 /\ cycles[d].state1 = 0

\* the messages published for the action run by cycle c
MessagesOf(c) ==
    {i \in 1..Len(published) : published[i].context = Output("output", c)}

\* C18: no call of run or handle_message raises; a cycle whose action raised
\* has returned, run with the failure text, it published no message, and
\* the next call of run and of handle_message can be made.
C18_ActionFailureSwallowed ==
    \A c \in CycleIds :
        /\ cycles[c].pc # "raised"
        /\ cycles[c].outcome = "raise" =>
              /\ cycles[c].pc = "returned"
              /\ cycles[c].kind = "run" => cycles[c].out = Output("action_error", c)
              /\ MessagesOf(c) = {}
              /\ (c < MaxCycles /\ cycles[c + 1].pc = "idle") =>
                    \A kind \in {"run", "handle_message"} :
                        (\A d \in CycleIds : InProgress(d) => cycles[d].kind # kind)
                            => ENABLED CycleStart(c + 1, kind)

\* the action of a run call and the action of a handle_message call raised,
\* the agent being attached to the bus, and a later cycle ran an action
C18_Witness ==
    /\ environment
    /\ \E c, d, e \in CycleIds :
          /\ c < e /\ d < e
          /\ cycles[c].kind = "run" /\ cycles[c].outcome = "raise"
          /\ cycles[d].kind = "handle_message" /\ cycles[d].outcome = "raise"
          /\ cycles[e].outcome = "ok" /\ cycles[e].pc = "returned"

\* C19: a cycle of an agent attached to the bus whose action returned has
\* published exactly one message, carrying the action's output, sent by the
\* agent, its cause being the name of the action the cycle ran.
C19_OneMessagePerAction ==
    \A c \in CycleIds :
        (environment /\ cycles[c].outcome = "ok") =>
            /\ Cardinality(MessagesOf(c)) = 1
            /\ \A i \in MessagesOf(c) :
                  /\ published[i].sent_from = RoleName
                  /\ published[i].cause_by = ActionNameOf(cycles[c].ran)

\* C20: while the workflow is paused, the manager starts no task: a run that
\* is about to call the next task's execute does not make the call.
C20_NoStartWhilePaused ==
    [][\A r \in RunIds :
           (wf_status = "paused" /\ wf_status' = "paused" /\ runs[r].pc = "call")
               => runs'[r].pc = "call"]_vars

\* the step is a call of op that returned
Called(op) == reply' # reply /\ reply'.op = op

\* the variables of the workflow's tasks
taskVars == <<wf_tasks, description, dependencies, max_retries, timeout, status,
              result, callbacks>>

\* C21: pause_workflow returns True exactly when the name is registered and
\* the workflow is running, and then only the status changes, to paused; when
\* it returns False the registry, the status, the tasks and everything else
\* are left as they were.
C21_PauseFrame ==
    [][Called("pause_workflow") =>
          /\ reply'.value = "True" <=>
                (reply'.name \in workflows /\ wf_status = "running")
          /\ wf_status' = IF reply'.value = "True" THEN "paused" ELSE wf_status
          /\ UNCHANGED <<busVars, roleVars, taskVars, workflows, wf_result,
                         active_workflow, runs, agent_calls, events,
                         initialized>>]_vars

\* the running workflow has been paused while a task is in flight
C21_Witness ==
    /\ reply = Reply("pause_workflow", "w", "True")
    /\ wf_status = "paused"
    /\ runs[1].pc = "agent"
    /\ status["T1"] = "completed"

Pairs(subs) == {p \in Topics \X Callbacks : p[1] \in DOMAIN subs /\ p[2] \in subs[p[1]]}

\* how many coroutines of callback c are in the list gathered for a message
Coroutines(message, c) ==
    Cardinality({i \in 1..Len(GatherArgs(message)) : GatherArgs(message)[i] = c})

\* C23: a subscribe call changes the subscriptions only by adding a pair
\* that was not there, so that subscribing again changes nothing; and for a
\* dispatched message each callback subscribed under its cause or under the
\* wildcard is invoked exactly once, and no other callback is invoked.
C23_SubscribeIdempotent ==
    /\ [][subscriptions' # subscriptions =>
             \E p \in (Topics \X Callbacks) \ Pairs(subscriptions) :
                 Pairs(subscriptions') = Pairs(subscriptions) \cup {p}]_vars
    /\ [][round' = round + 1 =>
             LET message == Head(message_queue) IN
             \A c \in Callbacks :
                 LET matches == \E p \in Pairs(subscriptions) :
                                   p[2] = c /\ p[1] \in {"*", message.cause_by}
                 IN /\ Coroutines(message, c) = IF matches THEN 1 ELSE 0
                    /\ (<<round', c>> \in DOMAIN calls') = matches]_vars

\* a message is dispatched to a callback that is subscribed under the
\* message's cause and under the wildcard
C23_Witness ==
    /\ {<<"t1", "a">>, <<"*", "a">>} \subseteq Pairs(subscriptions)
    /\ round > 0
    /\ dequeued[round].cause_by = "t1"
    /\ <<round, "a">> \in DOMAIN calls

\* C24: Environment() called when a bus exists returns the existing instance
\* and changes nothing of the bus, its subscriptions, queue and history
\* included, whoever calls it; only the first call creates an instance.
C24_ConstructAgain ==
    [][Called("Environment") =>
          /\ initialized'
          /\ IF initialized
             THEN reply'.value = "existing" /\ UNCHANGED busVars
             ELSE reply'.value = "created"]_vars

\* the workflow manager constructs the bus when it has a subscription, a
\* queued message and a history
C24_Witness ==
    /\ reply = Reply("Environment", "workflow_manager", "existing")
    /\ subscriptions # <<>>
    /\ message_queue # <<>>
    /\ message_history # <<>>

\* C25: the active workflow is None or a registered name in every state; a
\* delete_workflow call that removes the active workflow sets the pointer to
\* None, one that removes another workflow leaves the pointer unchanged, and
\* one that finds no workflow changes neither the registry nor the pointer.
C25_ActivePointer ==
    /\ [](active_workflow = None \/ active_workflow \in workflows)
    /\ [][Called("delete_workflow") =>
             LET name == reply'.name IN
             IF name \in workflows
             THEN /\ reply'.value = "True"
                  /\ workflows' = workflows \ {name}
                  /\ active_workflow' = IF active_workflow = name THEN None
                                        ELSE active_workflow
             ELSE /\ reply'.value = "False"
                  /\ UNCHANGED <<workflows, active_workflow>>]_vars

\* the active workflow is deleted while its execution awaits an agent
C25_Witness ==
    /\ reply = Reply("delete_workflow", "w", "True")
    /\ "w" \notin workflows
    /\ active_workflow = None
    /\ runs[1].pc = "agent"

\* a task of the workflow has the description
Known(desc) == \E t \in Range(wf_tasks) : description[t] = desc

\* C26: set_task_dependencies for a task of the workflow returns True and
\* appends to the task's dependencies one task for each description of the
\* list that a task of the workflow has, in the order of the list, and
\* nothing for the other descriptions; for an unknown workflow or task it
\* returns False and changes no dependency; it never raises; and the workflow
\* executed afterwards does not fail unless the known descriptions made a
\* cycle: it invokes the agent of every task once, after the agents of the
\* task's dependencies.
C26_UnknownDependencySkipped ==
    /\ [][Called("set_task_dependencies") =>
             LET task_desc == Head(reply'.args)
                 known == SelectSeq(Tail(reply'.args), Known)
             IN IF reply'.name = "w" /\ "w" \in workflows /\ Known(task_desc)
                THEN /\ reply'.value = "True"
                     /\ \E task \in Range(wf_tasks) :
                           /\ description[task] = task_desc
                           /\ \E added \in [1..Len(known) -> Range(wf_tasks)] :
                                 /\ \A i \in 1..Len(known) : description[added[i]] = known[i]
                                 /\ dependencies' = [dependencies EXCEPT ![task] = @ \o added]
                ELSE /\ reply'.value = "False"
                     /\ UNCHANGED dependencies]_vars
    /\ [](\A r \in RunIds :
             /\ runs[r].pc = "raised" => HasCycle
             /\ runs[r].pc = "returned" =>
                   /\ \A t \in Range(wf_tasks) :
                         Cardinality({i \in 1..Len(RunCalls(r)) : RunCalls(r)[i].task = t}) = 1
                   /\ \A i \in 1..Len(RunCalls(r)) :
                         \A d \in Range(dependencies[RunCalls(r)[i].task]) :
                             \E j \in 1..(i - 1) : RunCalls(r)[j].task = d)

\* the workflow has completed after the task Z was given a list with two
\* known descriptions and an unknown one, and the task Y a list with an
\* unknown description only
C26_Witness ==
    /\ dependencies["T3"] = <<"T2", "T1">>
    /\ dependencies["T2"] = <<>>
    /\ reply.op = "set_task_dependencies"
    /\ reply.args = <<"Y", Ghost>>
    /\ reply.value = "True"
    /\ runs[1].pc = "returned"
    /\ wf_status = "completed"

\* the messages the manager published, in publish order: those of the agents
\* are TEXT messages
ManagerMessages == SelectSeq(published, LAMBDA m : m.type # "text")

\* how many messages the call r must have published where it is: two for
\* each task it is done with, one for the task it is executing
Sent(r) ==
    LET run == runs[r]
    IN CASE run.pc = "idle" -> 0
         [] run.pc = "returned" -> 2 * Len(run.order)
         [] run.pc = "raised" -> IF run.err[1] = "cycle" THEN 0 ELSE 2 * run.k
         [] run.pc \in {"advance", "failing"} -> 2 * run.k
         [] OTHER -> 2 * run.k - 1

RECURSIVE SentBefore(_)
\* the messages of the calls made before the call r
SentBefore(r) == IF r = 1 THEN 0 ELSE SentBefore(r - 1) + Sent(r - 1)

\* C27: the messages the manager publishes during an execute_workflow call
\* are, for each task of the order in turn, a SYSTEM task-starting message
\* and then one message whose cause is the task's description: while the
\* task is being executed only its starting message is there, the agent not
\* being invoked before; the second message is a RESULT carrying the output
\* of the task's own agent invocation, or an ERROR when the task failed, and
\* the next starting message comes after it.
C27_MessageOrder ==
    /\ Len(ManagerMessages) = SentBefore(MaxRuns + 1)
    /\ \A r \in RunIds :
          LET run == runs[r] IN
          \A i \in 1..Sent(r) :
                LET m == ManagerMessages[SentBefore(r) + i]
                    task == run.order[(i + 1) \div 2]
                    failed == i = 2 * run.k /\ run.pc \in {"failing", "raised"}
                IN IF i % 2 = 1
                   THEN m.type = "system" /\ m.cause_by = "workflow_manager"
                   ELSE /\ m.cause_by = description[task]
                        /\ m.type = IF failed THEN "error" ELSE "result"
                        /\ ~failed =>
                              /\ m.context.n \in 1..Len(agent_calls)
                              /\ agent_calls[m.context.n] = [run |-> r, task |-> task]

\* a call has failed at its second task or later: a task-starting message
\* and a RESULT for the tasks before, a task-starting message and an ERROR
\* for the last one, with messages of the agents in between
C27_Witness ==
    \E r \in RunIds :
        /\ runs[r].pc = "raised"
        /\ runs[r].k >= 2
        /\ ManagerMessages[SentBefore(r) + Sent(r)].type = "error"
        /\ Len(published) > Len(ManagerMessages)

\* C28: for a dependency graph without a cycle _build_execution_order
\* raises nothing and returns a list that holds every task of the workflow
\* and every task reachable from them through dependencies, each exactly
\* once and after all the tasks it depends on.
C28_TopologicalOrder ==
    ~HasCycle =>
        \A r \in RunIds :
            runs[r].pc # "idle" =>
                LET order == runs[r].order IN
                /\ runs[r].pc = "built"
                /\ Range(order) = GraphTasks
                /\ Len(order) = Cardinality(GraphTasks)
                /\ \A i \in 1..Len(order) :
                       \A d \in Range(dependencies[order[i]]) :
                           \E j \in 1..(i - 1) : order[j] = d

\* the order of a workflow whose only task lists a dependency twice, that
\* dependency depending on the other one, which is listed too
C28_Witness ==
    /\ wf_tasks = <<"T3">>
    /\ dependencies["T3"] = <<"T2", "T1", "T2">>
    /\ dependencies["T2"] = <<"T1">>
    /\ runs[1].pc = "built"
    /\ runs[1].order = <<"T1", "T2", "T3">>

\* C29: a cycle whose think phase selected no action runs no action and
\* publishes no message.
C29_NothingToDo ==
    \A c \in CycleIds :
        (cycles[c].pc # "idle" /\ cycles[c].selected = None) =>
            /\ cycles[c].ran = None
            /\ MessagesOf(c) = {}

\* the outcomes of the attempts of the call, in order
Attempts == SelectSeq(retry_call.log, LAMBDA x : x # "sleep")

\* C30: a call of run_with_retry that has ended invoked run at least once
\* and at most max_retries times; every attempt but the last raised; when
\* the last attempt returned, the call returned its output, and when it
\* raised, max_retries attempts were made and the call raised its error; a
\* sleep comes only after a failed attempt and before another attempt.
C30_RunWithRetry ==
    LET log == retry_call.log
        n == Len(Attempts)
    IN retry_call.pc \in {"returned", "raised"} =>
          /\ n >= 1
          /\ n <= retry_call.max_retries
          /\ \A i \in 1..(n - 1) : Attempts[i] \in RunErrors
          /\ retry_call.pc = "returned" =>
                Attempts[n] \in RunOutputs /\ retry_call.value = Attempts[n]
          /\ retry_call.pc = "raised" =>
                /\ n = retry_call.max_retries
                /\ Attempts[n] \in RunErrors /\ retry_call.value = Attempts[n]
          /\ \A i \in 1..Len(log) :
                log[i] = "sleep" =>
                    /\ 1 < i /\ i < Len(log)
                    /\ log[i - 1] \in RunErrors
                    /\ log[i + 1] # "sleep"

\* C31: no two tasks of the workflow have the same description.
C31_UniqueDescriptions ==
    \A i, j \in 1..Len(wf_tasks) :
        description[wf_tasks[i]] = description[wf_tasks[j]] => i = j

\* C32: with the dispatch loop running, a callback whose publish found the
\* queue full eventually returns, and the loop then finishes the round it
\* is gathering.
C32_NoSelfDeadlock ==
    \A i \in Invocations :
        (i \in DOMAIN calls /\ calls[i] = "blocked")
            ~> (i \notin DOMAIN calls /\ (loop_pc = "gather" => round > i[1]))


\* the execute_workflow call r is between its first statement and its return
\* or raise
Executing(r) ==
    runs[r].pc \notin {"idle", "scheduled", "returned", "raised"}

\* C33: at most one execution of the workflow is in progress: two
\* execute_workflow calls, the one started by resume_workflow included, are
\* never both between their start and their end, and never await the agent
\* of the same task at the same time.
C33_OneExecutionAtATime ==
    \A r, q \in DOMAIN runs :
        r # q =>
            /\ ~(Executing(r) /\ Executing(q))
            /\ ~(/\ runs[r].pc = "agent"
                 /\ runs[q].pc = "agent"
                 /\ runs[r].stack[Len(runs[r].stack)].task
                        = runs[q].stack[Len(runs[q].stack)].task)


\* C34: when cycles of the agent have interleaved, a cycle whose think phase
\* selected an action has awaited that action, and every message published
\* for the output of its action carries the class name of that action as
\* its cause.
C34_InterleavedCyclesKeepTheirAction ==
    (\E d \in CycleIds : cycles[d].pc # "idle" /\ ~cycles[d].alone) =>
        \A c \in CycleIds :
            cycles[c].selected # None =>
                /\ cycles[c].ran = cycles[c].selected
                /\ \A i \in MessagesOf(c) :
                      published[i].cause_by = ClassName(cycles[c].selected)


\* C35: an attempt in which the action of the agent failed is the last
\* attempt its task makes in that execution, and the only one when it is the
\* first: no retry delay, no further invocation and no failure callback
\* follows, the task ends completed with
\* the failure text as its result, and the manager records that text as the
\* result of the task and publishes no ERROR message for it.
C35_ActionFailureCompletesTask ==
    \A i \in 1..Len(events) :
        LET e == events[i]
            run == runs[e.run]
            returning == /\ run.pc = "agent_ret"
                         /\ run.stack[Len(run.stack)].task = e.task
        IN e.ev = "action_error" =>
              /\ \A j \in (i + 1)..Len(events) :
                    (events[j].run = e.run /\ events[j].task = e.task) =>
                        events[j].ev = "on_success"
              /\ AttemptsOf(e.run, e.task)[1] = e =>
                    /\ CountOf(e.run, e.task, "invoke") = 1
                    /\ CountOf(e.run, e.task, "sleep") = 0
              /\ CountOf(e.run, e.task, "on_failure") = 0
              /\ run.err[1] = "none" \/ run.err[2] # e.task
              /\ \A j \in 1..Len(published) :
                    ~(/\ published[j].type = "error"
                      /\ published[j].context = Output("error", e.n))
              /\ (LatestRun(e.run) /\ ~returning) =>
                    /\ status[e.task] = "completed"
                    /\ result[e.task] = Output("failure", e.n)
                    /\ run.stack = <<>> =>
                          /\ description[e.task] \in DOMAIN run.results
                          /\ \/ run.results[description[e.task]] = Output("failure", e.n)
                             \/ \E t \in Tasks \ {e.task} :
                                   description[t] = description[e.task]

\* C35 witness: a workflow whose tasks may be retried once is completed, and
\* the action of the agent of one of its tasks failed.
C35_Witness ==
    /\ wf_status = "completed"
    /\ \E i \in 1..Len(events) :
          /\ events[i].ev = "action_error"
          /\ max_retries[events[i].task] = 1
          /\ status[events[i].task] = "completed"
          /\ result[events[i].task] = Output("failure", events[i].n)


\* C36: a call of Task.execute invokes the agent of a task at most
\* max_retries + 1 times and sleeps at most max_retries retry delays; when
\* the call has ended and every attempt of the task raised a non-timeout
\* error, the agent was invoked max_retries + 1 times and max_retries delays
\* were slept; a task without retries whose execute has ended after its
\* dependencies were executed has invoked its agent once.
C36_AttemptsBounded ==
    \A r \in DOMAIN runs, t \in Tasks :
        LET a == AttemptsOf(r, t) IN
        /\ CountOf(r, t, "invoke") <= max_retries[t] + 1
        /\ CountOf(r, t, "sleep") <= max_retries[t]
        /\ (/\ Finished(r)
            /\ a # <<>>
            /\ \A i \in 1..Len(a) : a[i].ev = "raise") =>
               /\ CountOf(r, t, "invoke") = max_retries[t] + 1
               /\ CountOf(r, t, "sleep") = max_retries[t]
        /\ (/\ Finished(r)
            /\ t = runs[r].root
            /\ max_retries[t] = 0
            /\ runs[r].pc = "raised" => runs[r].err[2] = t) =>
               CountOf(r, t, "invoke") = 1

\* C36 witness: a call has ended in which a task with two retries was invoked
\* three times with two delays between, every attempt raising.
C36_Witness ==
    \E r \in DOMAIN runs, t \in Tasks :
        /\ Finished(r)
        /\ max_retries[t] = 2
        /\ CountOf(r, t, "invoke") = 3
        /\ CountOf(r, t, "sleep") = 2
        /\ CountOf(r, t, "raise") = 3

\* C37: once agent.run has returned to an attempt of a task, the call makes
\* no further attempt for it: no later invocation of the agent and no retry
\* delay, the success callback is invoked once at most, and the task is not
\* failed by that call.
C37_NoAttemptAfterSuccess ==
    \A i \in 1..Len(events) :
        LET e == events[i] IN
        e.ev \in {"ok", "action_error"} =>
            /\ \A j \in (i + 1)..Len(events) :
                  (events[j].run = e.run /\ events[j].task = e.task) =>
                      events[j].ev \notin {"invoke", "sleep", "on_failure"}
            /\ CountOf(e.run, e.task, "on_success") <= 1
            /\ (LatestRun(e.run) /\ Finished(e.run)) => status[e.task] # "failed"


\* the tasks of the call r that await the execute of a dependency
Awaiting(r) ==
    {runs[r].stack[i].task : i \in 1..(Len(runs[r].stack) - 1)}

\* the call r, if it has raised the error of a dependency of the task it was
\* called for, did nothing after the failure of that dependency and nothing
\* for the task itself, whose status is the one it had before the call
RaisedFromDependency(r) ==
    LET d == runs[r].err[2]
        root == runs[r].root
        mine == SelectSeq(events, LAMBDA e : e.run = r)
    IN (runs[r].pc = "raised" /\ root # None /\ d # root) =>
          /\ mine # <<>>
          /\ mine[Len(mine)].task = d
          /\ runs[r].err[3] = mine[Len(mine)].n
          /\ \A i \in 1..Len(mine) : mine[i].task # root
          /\ LatestRun(r) =>
                /\ status[d] = "failed"
                /\ status[root] = runs[r].status0[root]
                /\ \A t \in Tasks :
                      (\A i \in 1..Len(mine) : mine[i].task # t) =>
                          status[t] = runs[r].status0[t]

\* C38: while a task awaits the execute of a dependency its status and its
\* result do not change, and when the dependency raises the call raises the
\* same error at once: the last thing the call did belongs to the failed
\* dependency, the agent and the callbacks of the task that was called were
\* not invoked, and the dependencies listed after the failed one were not
\* executed.
C38_DependencyFailurePropagates ==
    [][\A r \in DOMAIN runs :
           /\ \A t \in Awaiting(r) :
                 /\ status'[t] = status[t]
                 /\ result'[t] = result[t]
           /\ RaisedFromDependency(r)']_vars

\* C38 witness: the execute of a task with a failure callback has raised the
\* error of the first of its dependencies, and the dependency listed next
\* is still pending.
C38_Witness ==
    \E r \in DOMAIN runs :
        /\ runs[r].pc = "raised"
        /\ runs[r].root = "T3"
        /\ callbacks["T3"].on_failure
        /\ runs[r].err[2] = dependencies["T3"][1]
        /\ status[dependencies["T3"][2]] = "pending"
        /\ status["T3"] = "pending"


\* C39: a paused workflow stays paused while resume_workflow is not called:
\* no step of an execute_workflow call in progress changes the status
\* paused, be it to completed or to failed.
C39_PausedStaysPaused ==
    [][(wf_status = "paused" /\ ~Called("resume_workflow")) =>
           wf_status' = "paused"]_vars


\* C40: with the dispatch loop running and the cycles of the agents ending,
\* an execute_workflow call that has started eventually returns or raises,
\* leaving the workflow completed or failed.
C40_ExecuteWorkflowFinishes ==
    \A r \in RunIds :
        (runs[r].pc # "idle")
            ~> (/\ runs[r].pc \in {"returned", "raised"}
                /\ wf_status \in {"completed", "failed"})

====
